---- MODULE Spec2Model ----
(***************************************************************************)
(* SlideshowManager of custom_components/immich_slideshow/image.py: the    *)
(* asset pool, the loaded images and the refresh coroutine, run by         *)
(* several callers on one asyncio event loop.  A step of the model is one  *)
(* run of a coroutine between two awaits; generate_image is synchronous    *)
(* and is one step.                                                        *)
(***************************************************************************)
EXTENDS Integers, Sequences, FiniteSets, Bags, TLC

\* ---- program constants (image.py:22-25) ----
MAX_POOL_SIZE == 200
REFILL_THRESHOLD == 20
POOL_FETCH_SIZE == 100
API_CONCURRENCY_LIMIT == 5

\* ---- program constants (hub.py:15-16) ----
MAX_RETRIES == 3
RETRY_DELAYS == <<1, 2, 4>>

\* ---- bounds of the exploration ----
NumTasks == 2       \* callers of refresh(), each calling it once
NumIds == 2         \* asset ids the short answers draw from
MaxResp == 1        \* length of the short answers of the remote sources
Overshoot == 1      \* records a long answer holds beyond MAX_POOL_SIZE
MaxBulk == 1        \* long answers the remote sources give in one behaviour
MaxFaults == 1      \* failed detail fetches and downloads in one behaviour
MaxShuffle == 2     \* longest list of which every permutation is tried
MaxPoolLen == 3     \* longest pool a single _pop_from_pool call is tried on
MaxCount == 2       \* largest count a single _pop_from_pool call is given
MaxDim == 2         \* largest width and height is_portrait is tried on
MaxChars == 2       \* longest orientation string is_portrait is tried on
MaxMemories == 2    \* most memories get_memories answers with
MaxAssets == 1      \* most assets one memory holds
MaxPieces == 3      \* most comma-separated pieces of a resolutions text
MaxSubmits == 2     \* most submissions of a form in one flow
MaxEntities == 2    \* most resolutions, and so entities, of one config entry
MaxSide == 6        \* longest side of the images and targets a rendering is tried on
MaxCandidates == 7  \* most candidates of the refill whose detail fetches are followed

Tasks == 1..NumTasks
Ids == 1..NumIds
Resolutions == {<<4, 2>>, <<3, 3>>}
MixRatios == {0, 50, 100}

\* ---- values ----
\* exifInfo.orientation as the API gives it: missing, an int, or a string,
\* a string being the sequence of its characters
OrientationNone == [kind |-> "none", int |-> 0, str |-> <<>>]
OrientationInt(n) == [kind |-> "int", int |-> n, str |-> <<>>]
OrientationStr(s) == [kind |-> "str", int |-> 0, str |-> s]

\* None of a dict, of an image, of a bytes object
NoAsset == [id |-> 0, originalWidth |-> 0, originalHeight |-> 0,
            orientation |-> OrientationNone, memory_year |-> 0]
NoImage == [src |-> 0, size |-> <<0, 0>>]
NoBytes == [id |-> 0, ok |-> FALSE]
NoRender == [kind |-> "none", left |-> 0, right |-> 0, size |-> <<0, 0>>]
\* no generate_image call returned in the last step
NoCall == [kind |-> "nocall", left |-> 0, right |-> 0, size |-> <<0, 0>>]

\* What GET /api/assets/{id} answers for each id: ids cycle through an
\* upright portrait, a landscape without orientation and a portrait stored
\* rotated (code "6").
InfoOf(i) ==
    CASE i % 3 = 1 -> [w |-> 3, h |-> 4, orientation |-> OrientationInt(1)]
      [] i % 3 = 2 -> [w |-> 4, h |-> 3, orientation |-> OrientationNone]
      [] OTHER     -> [w |-> 4, h |-> 3, orientation |-> OrientationStr(<<"6">>)]

\* A candidate as the search or the memories endpoint returns it
Lite(i, year) == [id |-> i, originalWidth |-> 0, originalHeight |-> 0,
                  orientation |-> OrientationNone, memory_year |-> year]

MemoryYear == 2020

\* the value of a decimal digit, -1 for any other character
DigitValue(c) ==
    CASE c = "0" -> 0 [] c = "1" -> 1 [] c = "2" -> 2 [] c = "3" -> 3
      [] c = "4" -> 4 [] c = "5" -> 5 [] c = "6" -> 6 [] c = "7" -> 7
      [] c = "8" -> 8 [] c = "9" -> 9 [] OTHER -> -1

\* int(s) of a string of digits
RECURSIVE Decimal(_)
Decimal(s) ==
    IF Len(s) = 0 THEN 0
    ELSE 10 * Decimal(SubSeq(s, 1, Len(s) - 1)) + DigitValue(s[Len(s)])

\* a conversion that takes every string for "not rotated"
OrientationIntOnly(orientation) ==
    IF orientation.kind = "int" THEN orientation.int ELSE 0

\* orientation_int of is_portrait (image.py:524-528): int(orientation) if
\* orientation is truthy, 0 if it is not or if int() raises ValueError
orientation_int(orientation) ==
    CASE orientation.kind = "none" -> 0
      [] orientation.kind = "int" -> orientation.int
      [] OTHER ->
           IF Len(orientation.str) > 0
              /\ \A k \in 1..Len(orientation.str) : DigitValue(orientation.str[k]) >= 0
           THEN Decimal(orientation.str)
           ELSE 0

is_portrait(asset) ==
    LET width == asset.originalWidth
        height == asset.originalHeight
        rotated == orientation_int(asset.orientation) \in {5, 6, 7, 8}
    IN  IF width > 0 /\ height > 0
        THEN IF rotated THEN width > height ELSE height > width
        ELSE FALSE

\* enrich_asset on a successful detail fetch
Enriched(a) ==
    [a EXCEPT !.originalWidth = InfoOf(a.id).w,
              !.originalHeight = InfoOf(a.id).h,
              !.orientation = InfoOf(a.id).orientation]

\* Image.open + exif_transpose of the bytes of an asset
Decode(b) ==
    LET info == InfoOf(b.id)
    IN  [src |-> b.id,
         size |-> IF orientation_int(info.orientation) \in {5, 6, 7, 8}
                  THEN <<info.h, info.w>> ELSE <<info.w, info.h>>]

Min(a, b) == IF a < b THEN a ELSE b

\* ---- the pool (image.py:428-448) ----
\* a test that lets every record through
MatchesAny(asset, portrait_only) == TRUE

\* the test of the loop body: does the loop hand this record out
Matches(asset, portrait_only) == ~portrait_only \/ is_portrait(asset)

\* a loop that hands the first record out whatever the test says
FirstRecord(pool, portrait_only) == IF Len(pool) > 0 THEN 1 ELSE 0

\* index of the first record the loop hands out, 0 when there is none
FirstMatch(pool, portrait_only) ==
    IF \E i \in 1..Len(pool) : Matches(pool[i], portrait_only)
    THEN CHOOSE m \in 1..Len(pool) :
            /\ Matches(pool[m], portrait_only)
            /\ \A j \in 1..(m - 1) : ~Matches(pool[j], portrait_only)
    ELSE 0

\* a pop that hands the first match out and leaves it in the pool
PopKeeping(pool, count, portrait_only) ==
    LET m == FirstMatch(pool, portrait_only)
    IN  IF count <= 0 \/ m = 0
        THEN [result |-> <<>>, remaining |-> pool]
        ELSE [result |-> <<pool[m]>>, remaining |-> pool]

\* a pop that loses the records it skips on its way to the first match
PopDroppingSkipped(pool, count, portrait_only) ==
    LET m == FirstMatch(pool, portrait_only)
    IN  IF count <= 0 \/ m = 0
        THEN [result |-> <<>>, remaining |-> pool]
        ELSE [result |-> <<pool[m]>>, remaining |-> SubSeq(pool, m + 1, Len(pool))]

\* _pop_from_pool: the records handed out (result) and the records left in
\* the pool (remaining).  The loop of the source is unrolled on count: the
\* first match goes to result, what precedes it stays, and the loop goes on
\* behind it with one record less to hand out.
RECURSIVE _pop_from_pool(_, _, _)
_pop_from_pool(pool, count, portrait_only) ==
    LET m == FirstMatch(pool, portrait_only)
    IN  IF count <= 0 \/ m = 0
        THEN [result |-> <<>>, remaining |-> pool]
        ELSE LET rest == _pop_from_pool(SubSeq(pool, m + 1, Len(pool)),
                                        count - 1, portrait_only)
             IN  [result |-> <<pool[m]>> \o rest.result,
                  remaining |-> SubSeq(pool, 1, m - 1) \o rest.remaining]

\* a refill that forgets the cap
Uncapped(pool) == pool

\* the cap of image.py:425-426
Capped(pool) ==
    IF Len(pool) > MAX_POOL_SIZE THEN SubSeq(pool, 1, MAX_POOL_SIZE) ELSE pool

CountId(pool, i) == Cardinality({k \in 1..Len(pool) : pool[k].id = i})

\* ---- the environment: random.shuffle and the answers of the hub ----
Reverse(s) == [k \in 1..Len(s) |-> s[Len(s) + 1 - k]]

\* random.shuffle: every order of a short list, two orders of a long one
Shuffles(s) ==
    IF Len(s) <= MaxShuffle
    THEN {[k \in 1..Len(s) |-> s[p[k]]] : p \in Permutations(1..Len(s))}
    ELSE {s, Reverse(s)}

ShortIdLists == UNION {[1..n -> Ids] : n \in 0..MaxResp}

\* the ids of a long answer: n assets, all different, none of them in Ids
LongIdList(n) == [k \in 1..n |-> NumIds + k]
AllIds == 1..(NumIds + MAX_POOL_SIZE + Overshoot)

\* search_random_recent answers with any short list or, when long is set,
\* with more records than were asked for and than the pool can hold; an
\* empty list stands for exhausted retries (hub.py:125-126)
RecentAnswers(long) ==
    {[k \in 1..Len(l) |-> Lite(l[k], 0)] :
        l \in IF long THEN {LongIdList(MAX_POOL_SIZE + Overshoot)}
                      ELSE ShortIdLists}

\* get_memory_assets answers likewise, each record carrying memory_year
MemoryAnswers(long) ==
    {[k \in 1..Len(l) |-> Lite(l[k], MemoryYear)] :
        l \in IF long THEN {LongIdList(POOL_FETCH_SIZE + Overshoot)}
                      ELSE ShortIdLists}

\* the ids whose get_asset_info answers None during one refill: none, one, all
FailingSets == {{}, AllIds} \cup {{i} : i \in Ids}

\* download_asset(id): None, bytes that decode, or bytes that do not
DownloadAnswers(i) == {NoBytes, [id |-> i, ok |-> TRUE], [id |-> i, ok |-> FALSE]}
Failed(b) == ~b.ok

Truthy(b) == b.id # 0

\* ---- state ----
VARIABLES
    dual_portrait, mix_ratio,          \* configuration of the manager
    asset_pool, pool_empty,            \* _asset_pool, _pool_empty
    current_img1, current_img2, is_dual,
    current_asset1, current_asset2,
    refresh_lock,                      \* 0 or the task holding _refresh_lock
    pc, frame,                         \* per caller: position and locals
    outcome,                           \* what the last refresh() returned, and where
    rendered,                          \* what generate_image returned, if the last step called it
    committed,                         \* images stored by the last successful refresh
    popcount,                          \* per id of Ids: records _pop_from_pool handed out
    appended,                          \* per id of Ids: records a refill left in the pool
    refilled,                          \* length of the pool when the last refill extended it
    last_refill,                       \* the refill whose detail fetches returned in the last step,
                                       \* if one did: the pool before it, its candidates, those
                                       \* fetched successfully, the pool after it
    bulk,                              \* long answers given so far
    faults,                            \* failed detail fetches and downloads so far
    probe                              \* a single call of a function or of a hub method:
                                       \* its arguments, its progress, its result

\* what no operation of the manager changes
cfgVars == <<dual_portrait, mix_ratio, probe>>
poolVars == <<asset_pool, pool_empty, popcount>>
metaVars == <<current_asset1, current_asset2>>
imgVars == <<current_img1, current_img2, is_dual, committed>>
ctlVars == <<pc, frame, refresh_lock, outcome>>
vars == <<dual_portrait, mix_ratio, asset_pool, pool_empty, current_img1,
          current_img2, is_dual, current_asset1, current_asset2, refresh_lock,
          pc, frame, outcome, rendered, committed, popcount, appended,
          refilled, last_refill, bulk, faults, probe>>

NoFrame == [fetch_count |-> 0, memory_count |-> 0, memory_assets |-> <<>>,
            recent_count |-> 0, assets |-> <<>>, chosen |-> NoAsset, second |-> NoAsset,
            img1_bytes |-> NoBytes]

\* no detail fetches returned in the last step
NoRefill == [before |-> <<>>, assets |-> <<>>, succeeded |-> {}, after |-> <<>>]

\* no call is examined on its own
NoProbe == [fn |-> "none"]

BodyPcs == {"mem", "recent", "enrich", "dl1", "dl2", "dl"}
InBody(t) == pc[t] \in BodyPcs

Init ==
    /\ dual_portrait \in BOOLEAN
    /\ mix_ratio \in MixRatios
    /\ asset_pool = <<>>
    /\ pool_empty = FALSE
    /\ current_img1 = NoImage
    /\ current_img2 = NoImage
    /\ is_dual = FALSE
    /\ current_asset1 = NoAsset
    /\ current_asset2 = NoAsset
    /\ refresh_lock = 0
    /\ pc = [t \in Tasks |-> "idle"]
    /\ frame = [t \in Tasks |-> NoFrame]
    /\ outcome = [value |-> "none", path |-> "none"]
    /\ rendered = NoCall
    /\ committed = [img1 |-> NoImage, img2 |-> NoImage, dual |-> FALSE]
    /\ popcount = [i \in Ids |-> 0]
    /\ appended = [i \in Ids |-> 0]
    /\ refilled = 0
    /\ last_refill = NoRefill
    /\ bulk = 0
    /\ faults = 0
    /\ probe = NoProbe

\* ---- control of one refresh() call ----
\* a refresh() that does not wait for the lock
LockIgnored(t) == TRUE

\* the lock can be taken by t (asyncio.Lock.acquire): it is free and no
\* earlier caller is waiting for it, the waiters being served first come
\* first served
LockFree(t) ==
    /\ refresh_lock = 0
    /\ \A u \in Tasks : u < t => pc[u] # "waiting"

\* the coroutine stops at an await, still holding the lock
Suspend(t, at, f) ==
    /\ pc' = [pc EXCEPT ![t] = at]
    /\ frame' = [frame EXCEPT ![t] = f]
    /\ refresh_lock' = t
    /\ UNCHANGED outcome

\* a return that leaves the lock with the caller
ReturnKeepingLock(t, value, path) ==
    /\ pc' = [pc EXCEPT ![t] = "done"]
    /\ frame' = [frame EXCEPT ![t] = NoFrame]
    /\ refresh_lock' = refresh_lock
    /\ outcome' = [value |-> value, path |-> path]

\* refresh() returns: the lock is released on leaving "async with"
Return(t, value, path) ==
    /\ pc' = [pc EXCEPT ![t] = "done"]
    /\ frame' = [frame EXCEPT ![t] = NoFrame]
    /\ refresh_lock' = 0
    /\ outcome' = [value |-> value, path |-> path]

\* a download that stays within the budget of failures
Downloads(i) == {b \in DownloadAnswers(i) : Failed(b) => faults < MaxFaults}
Counted(b) == faults' = IF Failed(b) THEN faults + 1 ELSE faults

\* popcount after the records of the list have been handed out
Popped(records) == [i \in Ids |-> popcount[i] + CountId(records, i)]

\* _do_refresh from the end of the refill step to its next await or return
\* (image.py:287-311, 334-335); p is the pool the refill step left.  The
\* locals of _refill_pool are gone once it has returned.
AfterRefill(t, p) ==
    IF Len(p) = 0
    THEN /\ asset_pool' = p
         /\ pool_empty' = TRUE
         /\ UNCHANGED <<popcount, metaVars>>
         /\ Return(t, "False", "pool_empty")
    ELSE LET popped == _pop_from_pool(p, 1, FALSE)
         IN  IF Len(popped.result) = 0
             THEN /\ asset_pool' = popped.remaining
                  /\ pool_empty' = FALSE
                  /\ UNCHANGED <<popcount, metaVars>>
                  /\ Return(t, "False", "pop_empty")
             ELSE LET chosen == popped.result[1]
                      second_list == _pop_from_pool(popped.remaining, 1, TRUE)
                  IN  /\ pool_empty' = FALSE
                      /\ current_asset1' = chosen
                      /\ current_asset2' = NoAsset
                      /\ IF dual_portrait /\ is_portrait(chosen)
                         THEN /\ asset_pool' = second_list.remaining
                              /\ IF Len(second_list.result) > 0
                                 THEN /\ popcount' = Popped(<<chosen, second_list.result[1]>>)
                                      /\ Suspend(t, "dl1",
                                           [NoFrame EXCEPT !.chosen = chosen,
                                              !.second = second_list.result[1]])
                                 ELSE /\ popcount' = Popped(<<chosen>>)
                                      /\ Suspend(t, "dl",
                                           [NoFrame EXCEPT !.chosen = chosen])
                         ELSE /\ asset_pool' = popped.remaining
                              /\ popcount' = Popped(<<chosen>>)
                              /\ Suspend(t, "dl",
                                   [NoFrame EXCEPT !.chosen = chosen])

\* _refill_pool, image.py:392-401: combine, shuffle, and go on to enrich
Combine(t, f, memory_assets, recent_assets) ==
    \E assets \in Shuffles(memory_assets \o recent_assets) :
        IF Len(assets) = 0
        THEN AfterRefill(t, asset_pool)
        ELSE /\ Suspend(t, "enrich", [f EXCEPT !.assets = assets])
             /\ UNCHANGED <<poolVars, metaVars>>

\* a request for fetch_count recent photos whatever the memories gave
RecentFillsAll(fetch_count, memory_assets) == fetch_count

\* recent_count, image.py:382
recent_count(fetch_count, memory_assets) == fetch_count - Len(memory_assets)

\* _refill_pool, image.py:380-390: the recent photos fill the other slots
AfterMemories(t, f, memory_assets) ==
    LET g == [f EXCEPT !.memory_assets = memory_assets,
                       !.recent_count = recent_count(f.fetch_count, memory_assets)]
    IN  IF g.recent_count > 0
        THEN /\ Suspend(t, "recent", g)
             /\ UNCHANGED <<poolVars, metaVars>>
        ELSE Combine(t, g, memory_assets, <<>>)

\* a split that always asks for one memory at least
MemoryCountAtLeastOne(ratio, fetch_count) ==
    IF (ratio * fetch_count) \div 100 > 0 THEN (ratio * fetch_count) \div 100 ELSE 1

\* int(mix_ratio * fetch_count / 100), image.py:369
memory_count(ratio, fetch_count) == (ratio * fetch_count) \div 100

\* _refill_pool, image.py:361-378: from its call to its first await
StartRefill(t) ==
    LET current_size == Len(asset_pool)
        space_available == MAX_POOL_SIZE - current_size
        fetch_count == Min(POOL_FETCH_SIZE, space_available)
        f == [frame[t] EXCEPT !.fetch_count = fetch_count,
                              !.memory_count = memory_count(mix_ratio, fetch_count)]
    IN  IF fetch_count <= 0
        THEN AfterRefill(t, asset_pool)
        ELSE IF f.memory_count > 0
             THEN /\ Suspend(t, "mem", f)
                  /\ UNCHANGED <<poolVars, metaVars>>
             ELSE AfterMemories(t, f, <<>>)

\* ---- the operations ----
\* a caller calls refresh() and reaches "async with self._refresh_lock";
\* the callers are numbered in the order of their calls
CallRefresh(t) ==
    /\ pc[t] = "idle"
    /\ \A u \in Tasks : u < t => pc[u] # "idle"
    /\ pc' = [pc EXCEPT ![t] = "waiting"]
    /\ last_refill' = NoRefill
    /\ UNCHANGED <<cfgVars, poolVars, metaVars, imgVars, frame, refresh_lock,
                   outcome, appended, refilled, bulk, faults>>
    /\ rendered' = NoCall

\* a release that forgets the second image
ReleaseFirstOnly == current_img1' = NoImage /\ current_img2' = current_img2

\* the loaded images are closed and the slots set to None (image.py:270-281)
ReleaseImages == current_img1' = NoImage /\ current_img2' = NoImage

\* a test that asks for a refill whenever the pool has a free slot
BelowCap(pool) == Len(pool) < MAX_POOL_SIZE

\* the test of image.py:284: the pool is below the threshold
BelowThreshold(pool) == Len(pool) < REFILL_THRESHOLD

\* the caller gets the lock and runs _do_refresh up to its first await:
\* the loaded images are closed, the pool is refilled when low
Acquire(t) ==
    /\ pc[t] = "waiting"
    /\ LockFree(t)
    /\ ReleaseImages
    /\ UNCHANGED <<is_dual, committed>>
    /\ IF BelowThreshold(asset_pool)
       THEN StartRefill(t)
       ELSE AfterRefill(t, asset_pool)
    /\ last_refill' = NoRefill
    /\ UNCHANGED <<cfgVars, appended, refilled, bulk, faults>>
    /\ rendered' = NoCall

\* get_memory_assets returns (image.py:374-378)
MemoriesReturn(t) ==
    /\ pc[t] = "mem"
    /\ \E long \in {b \in BOOLEAN : b => bulk < MaxBulk} :
       \E answer \in MemoryAnswers(long) :
       \E shuffled \in Shuffles(answer) :
          /\ bulk' = IF long THEN bulk + 1 ELSE bulk
          /\ AfterMemories(t, frame[t],
                SubSeq(shuffled, 1, Min(Len(shuffled), frame[t].memory_count)))
    /\ last_refill' = NoRefill
    /\ UNCHANGED <<cfgVars, imgVars, appended, refilled, faults>>
    /\ rendered' = NoCall

\* search_random_recent returns (image.py:386-398)
RecentReturn(t) ==
    /\ pc[t] = "recent"
    /\ \E long \in {b \in BOOLEAN : b => bulk < MaxBulk} :
       \E answer \in RecentAnswers(long) :
          /\ bulk' = IF long THEN bulk + 1 ELSE bulk
          /\ Combine(t, frame[t], frame[t].memory_assets, answer)
    /\ last_refill' = NoRefill
    /\ UNCHANGED <<cfgVars, imgVars, appended, refilled, faults>>
    /\ rendered' = NoCall

\* a filter that keeps the candidates whose detail fetch answered None
KeepingNone(assets, failing) == assets

\* "a for a in enriched if a is not None" (image.py:420): the candidates
\* whose detail fetch answered, in their order
NotNone(assets, failing) == SelectSeq(assets, LAMBDA a : a.id \notin failing)

\* asyncio.gather of the detail fetches returns (image.py:419-426); the ids
\* in failing are those whose get_asset_info answered None
EnrichReturn(t) ==
    /\ pc[t] = "enrich"
    /\ \E failing \in {f \in FailingSets : f # {} => faults < MaxFaults} :
       LET kept == NotNone(frame[t].assets, failing)
           enriched == [k \in 1..Len(kept) |-> Enriched(kept[k])]
       IN  \E enriched_assets \in Shuffles(enriched) :
           LET pool == Capped(asset_pool \o enriched_assets)
           IN  /\ last_refill' =
                     [before |-> asset_pool, assets |-> frame[t].assets,
                      succeeded |-> {k \in 1..Len(frame[t].assets) :
                                       frame[t].assets[k].id \notin failing},
                      after |-> pool]
               /\ appended' = [i \in Ids |-> appended[i] + CountId(pool, i)
                                               - CountId(asset_pool, i)]
               /\ refilled' = Len(pool)
               /\ faults' = IF failing # {} THEN faults + 1 ELSE faults
               /\ AfterRefill(t, pool)
    /\ UNCHANGED <<cfgVars, imgVars, bulk>>
    /\ rendered' = NoCall

\* download_asset(chosen["id"]) of the dual attempt returns (image.py:311)
FirstDownloadReturn(t) ==
    /\ pc[t] = "dl1"
    /\ \E bytes \in Downloads(frame[t].chosen.id) :
          /\ Counted(bytes)
          /\ Suspend(t, "dl2", [frame[t] EXCEPT !.img1_bytes = bytes])
    /\ last_refill' = NoRefill
    /\ UNCHANGED <<cfgVars, poolVars, metaVars, imgVars, appended, refilled, bulk>>
    /\ rendered' = NoCall

\* download_asset(second["id"]) returns (image.py:312-332): both images are
\* decoded and stored, or the refresh falls through to the single image
SecondDownloadReturn(t) ==
    /\ pc[t] = "dl2"
    /\ \E img2_bytes \in Downloads(frame[t].second.id) :
       LET img1_bytes == frame[t].img1_bytes
       IN  /\ Counted(img2_bytes)
           /\ IF Truthy(img1_bytes) /\ Truthy(img2_bytes)
              /\ img1_bytes.ok /\ img2_bytes.ok
              THEN /\ current_img1' = Decode(img1_bytes)
                   /\ current_img2' = Decode(img2_bytes)
                   /\ current_asset2' = frame[t].second
                   /\ is_dual' = TRUE
                   /\ committed' = [img1 |-> Decode(img1_bytes),
                                    img2 |-> Decode(img2_bytes), dual |-> TRUE]
                   /\ UNCHANGED current_asset1
                   /\ Return(t, "True", "dual")
              ELSE /\ Suspend(t, "dl", frame[t])
                   /\ UNCHANGED <<metaVars, imgVars>>
    /\ last_refill' = NoRefill
    /\ UNCHANGED <<cfgVars, poolVars, appended, refilled, bulk>>
    /\ rendered' = NoCall

\* where a refresh that stores a single image has come from: no dual
\* attempt, or a dual attempt given up with or without the first bytes
SinglePath(f) ==
    IF f.second = NoAsset THEN "single"
    ELSE IF f.img1_bytes.ok THEN "single_second_failed"
    ELSE "single_first_failed"

\* a single image stored without touching the dual flag
StoreSingleKeepingDual(img) ==
    /\ current_img1' = img
    /\ current_img2' = NoImage
    /\ is_dual' = is_dual
    /\ committed' = [img1 |-> img, img2 |-> NoImage, dual |-> is_dual]

\* the decoded single image is stored (image.py:345-347)
StoreSingle(img) ==
    /\ current_img1' = img
    /\ current_img2' = NoImage
    /\ is_dual' = FALSE
    /\ committed' = [img1 |-> img, img2 |-> NoImage, dual |-> FALSE]

\* download_asset(chosen["id"]) of the single image returns (image.py:335-351)
DownloadReturn(t) ==
    /\ pc[t] = "dl"
    /\ \E image_bytes \in Downloads(frame[t].chosen.id) :
          /\ Counted(image_bytes)
          /\ IF ~Truthy(image_bytes)
             THEN /\ UNCHANGED imgVars
                  /\ Return(t, "False", "no_bytes")
             ELSE IF image_bytes.ok
                  THEN /\ StoreSingle(Decode(image_bytes))
                       /\ Return(t, "True", SinglePath(frame[t]))
                  ELSE /\ UNCHANGED imgVars
                       /\ Return(t, "False", "decode_error")
    /\ last_refill' = NoRefill
    /\ UNCHANGED <<cfgVars, poolVars, metaVars, appended, refilled, bulk>>
    /\ rendered' = NoCall

\* what generate_image makes of two image slots and the dual flag
\* (image.py:452-460)
RenderOf(img1, img2, dual, target_w, target_h) ==
    IF img1 = NoImage
    THEN NoRender
    ELSE IF dual /\ img2 # NoImage
         THEN [kind |-> "dual", left |-> img1.src,
               right |-> img2.src, size |-> <<target_w, target_h>>]
         ELSE [kind |-> "single", left |-> img1.src,
               right |-> 0, size |-> <<target_w, target_h>>]

\* what generate_image returns in the current state
generate_image(target_w, target_h) ==
    RenderOf(current_img1, current_img2, is_dual, target_w, target_h)

\* an is_available that never reports an empty pool
AlwaysAvailable == TRUE

\* is_available (image.py:257-260)
is_available == ~pool_empty

\* a generate_image that releases the first image once it is encoded
GenerateImageReleasing(target_w, target_h) ==
    /\ rendered' = generate_image(target_w, target_h)
    /\ current_img1' = NoImage
    /\ last_refill' = NoRefill
    /\ UNCHANGED <<cfgVars, poolVars, metaVars, current_img2, is_dual,
                   committed, ctlVars, appended, refilled, bulk, faults>>

\* an entity calls generate_image; it takes no lock
GenerateImage(target_w, target_h) ==
    /\ rendered' = generate_image(target_w, target_h)
    /\ last_refill' = NoRefill
    /\ UNCHANGED <<cfgVars, poolVars, metaVars, imgVars, ctlVars, appended, refilled, bulk, faults>>

Next ==
    \/ \E t \in Tasks : CallRefresh(t)
    \/ \E t \in Tasks : Acquire(t)
    \/ \E t \in Tasks : MemoriesReturn(t)
    \/ \E t \in Tasks : RecentReturn(t)
    \/ \E t \in Tasks : EnrichReturn(t)
    \/ \E t \in Tasks : FirstDownloadReturn(t)
    \/ \E t \in Tasks : SecondDownloadReturn(t)
    \/ \E t \in Tasks : DownloadReturn(t)
    \/ \E r \in Resolutions : GenerateImage(r[1], r[2])

Spec == Init /\ [][Next]_vars

\* the step caller t makes next, if it is inside refresh(): at most one of
\* them is possible at a time
Resume(t) ==
    \/ Acquire(t)
    \/ MemoriesReturn(t)
    \/ RecentReturn(t)
    \/ EnrichReturn(t)
    \/ FirstDownloadReturn(t)
    \/ SecondDownloadReturn(t)
    \/ DownloadReturn(t)

\* every remote call returns in the end, and so does every acquire() of the
\* lock once the lock is released: the event loop resumes each coroutine
\* that can go on
Fairness == \A t \in Tasks : WF_vars(Resume(t))

\* the manager with a remote source that gives short answers only
LiveInit ==
    /\ dual_portrait \in BOOLEAN
    /\ mix_ratio \in MixRatios
    /\ asset_pool = <<>>
    /\ pool_empty = FALSE
    /\ current_img1 = NoImage
    /\ current_img2 = NoImage
    /\ is_dual = FALSE
    /\ current_asset1 = NoAsset
    /\ current_asset2 = NoAsset
    /\ refresh_lock = 0
    /\ pc = [t \in Tasks |-> "idle"]
    /\ frame = [t \in Tasks |-> NoFrame]
    /\ outcome = [value |-> "none", path |-> "none"]
    /\ rendered = NoCall
    /\ committed = [img1 |-> NoImage, img2 |-> NoImage, dual |-> FALSE]
    /\ popcount = [i \in Ids |-> 0]
    /\ appended = [i \in Ids |-> 0]
    /\ refilled = 0
    /\ last_refill = NoRefill
    /\ bulk = MaxBulk
    /\ faults = 0
    /\ probe = NoProbe

LiveSpec == LiveInit /\ [][Next]_vars /\ Fairness

\* ---- single calls, examined on a manager nobody else uses ----
managerVars == <<dual_portrait, mix_ratio, pool_empty, current_img1,
                 current_img2, is_dual, current_asset1, current_asset2,
                 refresh_lock, pc, frame, outcome, rendered, committed,
                 popcount, appended, refilled, last_refill, bulk, faults>>

\* the manager as constructed (image.py:78-96), no refresh() called
Constructed ==
    /\ dual_portrait = FALSE
    /\ mix_ratio = 0
    /\ pool_empty = FALSE
    /\ current_img1 = NoImage
    /\ current_img2 = NoImage
    /\ is_dual = FALSE
    /\ current_asset1 = NoAsset
    /\ current_asset2 = NoAsset
    /\ refresh_lock = 0
    /\ pc = [t \in Tasks |-> "idle"]
    /\ frame = [t \in Tasks |-> NoFrame]
    /\ outcome = [value |-> "none", path |-> "none"]
    /\ rendered = NoCall
    /\ committed = [img1 |-> NoImage, img2 |-> NoImage, dual |-> FALSE]
    /\ popcount = [i \in Ids |-> 0]
    /\ appended = [i \in Ids |-> 0]
    /\ refilled = 0
    /\ last_refill = NoRefill
    /\ bulk = 0
    /\ faults = 0

\* ---- _pop_from_pool called on any pool (image.py:428-448) ----
\* the elements of s at the indices of S, in the order of s
SubseqAt(s, S) ==
    LET ix == SelectSeq([i \in 1..Len(s) |-> i], LAMBDA i : i \in S)
    IN  [k \in 1..Len(ix) |-> s[ix[k]]]

\* pools of enriched records, memories and recent photos
PopPools ==
    UNION {[1..n -> {Enriched(Lite(i, y)) : i \in Ids, y \in {0, MemoryYear}}] :
             n \in 0..MaxPoolLen}

PopInit ==
    /\ Constructed
    /\ asset_pool \in PopPools
    /\ \E count \in 0..MaxCount, portrait_only \in BOOLEAN :
          probe = [fn |-> "_pop_from_pool", pool |-> asset_pool, count |-> count,
                   portrait_only |-> portrait_only, done |-> FALSE, result |-> <<>>]

PopCall ==
    /\ probe.fn = "_pop_from_pool" /\ ~probe.done
    /\ LET r == _pop_from_pool(asset_pool, probe.count, probe.portrait_only)
       IN  /\ asset_pool' = r.remaining
           /\ probe' = [probe EXCEPT !.done = TRUE, !.result = r.result]
    /\ UNCHANGED managerVars

PopNext == PopCall

PopSpec == PopInit /\ [][PopNext]_vars

\* ---- is_portrait called on any record (image.py:517-537) ----
OrientationChars == {"0", "6", "8", "x"}
Orientations ==
    {OrientationNone}
    \cup {OrientationInt(n) : n \in 0..9}
    \cup {OrientationStr(str) :
             str \in UNION {[1..n -> OrientationChars] : n \in 0..MaxChars}}

PortraitInit ==
    /\ Constructed
    /\ asset_pool = <<>>
    /\ \E width \in 0..MaxDim, height \in 0..MaxDim, orientation \in Orientations :
          probe = [fn |-> "is_portrait",
                   asset |-> [id |-> 1, originalWidth |-> width,
                              originalHeight |-> height,
                              orientation |-> orientation, memory_year |-> 0],
                   done |-> FALSE, result |-> FALSE]

PortraitCall ==
    /\ probe.fn = "is_portrait" /\ ~probe.done
    /\ probe' = [probe EXCEPT !.done = TRUE, !.result = is_portrait(probe.asset)]
    /\ UNCHANGED <<managerVars, asset_pool>>

PortraitNext == PortraitCall

PortraitSpec == PortraitInit /\ [][PortraitNext]_vars

\* ---- get_memory_assets called on any answer of get_memories ----
\* ---- (hub.py:238-274) ----
\* datetime.now().year
CurrentYear == 2026

\* an age filter that drops the memories exactly max_years old as well
TooOldFromLimit(year, max_years) ==
    max_years > 0 /\ CurrentYear - year >= max_years

\* the age filter (hub.py:260-263)
TooOld(year, max_years) ==
    max_years > 0 /\ CurrentYear - year > max_years

\* the images of one memory, tagged with its year (hub.py:265-272)
TaggedImages(memory) ==
    LET images == SelectSeq(memory.assets, LAMBDA a : a.type = "IMAGE")
    IN  [k \in 1..Len(images) |->
            [id |-> images[k].id, type |-> images[k].type,
             memory_year |-> memory.year]]

RECURSIVE get_memory_assets(_, _)
get_memory_assets(memories, max_years) ==
    IF Len(memories) = 0
    THEN <<>>
    ELSE LET memory == Head(memories)
             kept == IF ~memory.has_year THEN <<>>
                     ELSE IF TooOld(memory.year, max_years) THEN <<>>
                     ELSE TaggedImages(memory)
         IN  kept \o get_memory_assets(Tail(memories), max_years)

\* what a memory can hold and what get_memories can answer
MemoryItems == {[id |-> 1, type |-> "IMAGE"], [id |-> 2, type |-> "IMAGE"],
                [id |-> 3, type |-> "VIDEO"]}
MemoryYears == {[has_year |-> FALSE, year |-> 0],
                [has_year |-> TRUE, year |-> CurrentYear - 5],
                [has_year |-> TRUE, year |-> CurrentYear - 9]}
Memories ==
    {[has_year |-> y.has_year, year |-> y.year, assets |-> a] :
        y \in MemoryYears,
        a \in UNION {[1..n -> MemoryItems] : n \in 0..MaxAssets}}
MaxYearsChoices == {0, 5}

MemoryInit ==
    /\ Constructed
    /\ asset_pool = <<>>
    /\ \E memories \in UNION {[1..n -> Memories] : n \in 0..MaxMemories},
          max_years \in MaxYearsChoices :
          probe = [fn |-> "get_memory_assets", memories |-> memories,
                   max_years |-> max_years, done |-> FALSE, result |-> <<>>]

MemoryCall ==
    /\ probe.fn = "get_memory_assets" /\ ~probe.done
    /\ probe' = [probe EXCEPT !.done = TRUE,
                    !.result = get_memory_assets(probe.memories, probe.max_years)]
    /\ UNCHANGED <<managerVars, asset_pool>>

MemoryNext == MemoryCall

MemorySpec == MemoryInit /\ [][MemoryNext]_vars

\* ---- one call of a hub method and its retry loop (hub.py:69-236) ----
HubMethods == {"search_random_recent", "get_memories", "get_asset_info",
               "download_asset"}
ListMethods == {"search_random_recent", "get_memories"}

\* what one attempt ends with: a response with a status and a content type
\* (the words of the header), or aiohttp.ClientError or asyncio.TimeoutError
\* raised inside the try block
Response(status, content_type) ==
    [status |-> status, error |-> "none", content_type |-> content_type]
Raised(error) == [status |-> 0, error |-> error, content_type |-> <<>>]

FailedAttempts ==
    {Response(404, <<>>), Response(500, <<>>),
     Raised("ClientError"), Raised("TimeoutError")}

\* the endpoints that answer JSON do so on a 200; the download endpoint
\* answers a 200 with an image, with something else, or without the header
AttemptAnswers(fn) ==
    FailedAttempts \cup
    (IF fn = "download_asset"
     THEN {Response(200, <<"image", "jpeg">>), Response(200, <<"text", "html">>),
           Response(200, <<>>)}
     ELSE {Response(200, <<"application", "json">>)})

\* "image" in content_type
HasImage(content_type) ==
    \E k \in 1..Len(content_type) : content_type[k] = "image"

\* a loop body that gives up with [] on an exception instead of retrying
HandleListGivingUp(answer) ==
    IF answer.error # "none" THEN "empty_list"
    ELSE IF answer.status = 200 THEN "payload" ELSE "retry"

\* the loop body of search_random_recent and of get_memories
\* (hub.py:101-121, 214-231): what it returns, or "retry"
HandleList(answer) ==
    IF answer.error # "none" THEN "retry"
    ELSE IF answer.status = 200 THEN "payload" ELSE "retry"

\* a loop body that retries on every status but 200
HandleInfoRetrying404(answer) ==
    IF answer.error # "none" THEN "retry"
    ELSE IF answer.status = 200 THEN "payload" ELSE "retry"

\* the loop body of get_asset_info (hub.py:182-192)
HandleInfo(answer) ==
    IF answer.error # "none" THEN "retry"
    ELSE IF answer.status = 200 THEN "payload"
    ELSE IF answer.status = 404 THEN "none" ELSE "retry"

\* a loop body that reads the body of any 200 response
HandleDownloadAnyType(answer) ==
    IF answer.error # "none" THEN "retry"
    ELSE IF answer.status # 200 THEN "retry" ELSE "bytes"

\* the loop body of download_asset (hub.py:142-161)
HandleDownload(answer) ==
    IF answer.error # "none" THEN "retry"
    ELSE IF answer.status # 200 THEN "retry"
    ELSE IF ~HasImage(answer.content_type) THEN "none" ELSE "bytes"

Handle(fn, answer) ==
    CASE fn \in ListMethods -> HandleList(answer)
      [] fn = "get_asset_info" -> HandleInfo(answer)
      [] OTHER -> HandleDownload(answer)

\* what the method returns after the loop (hub.py:125-126, 168-169, 197,
\* 235-236)
Exhausted(fn) == IF fn \in ListMethods THEN "empty_list" ELSE "none"

\* a value returned: its kind and the attempt whose body it is, 0 for
\* [] and None
Returned(kind, attempt) ==
    [kind |-> kind, from |-> IF kind \in {"payload", "bytes"} THEN attempt ELSE 0]
NoResult == [kind |-> "pending", from |-> 0]

HubInit ==
    /\ Constructed
    /\ asset_pool = <<>>
    /\ \E fn \in HubMethods :
          probe = [fn |-> fn, attempt |-> 0, pc |-> "request", log |-> <<>>,
                   slept |-> <<>>, result |-> NoResult]

\* an attempt ends: the method returns, or sleeps before the next attempt,
\* or leaves the loop after the last one
HubRespond ==
    /\ probe.fn \in HubMethods /\ probe.pc = "request"
    /\ \E answer \in AttemptAnswers(probe.fn) :
       LET h == Handle(probe.fn, answer)
           log == Append(probe.log, answer)
       IN  IF h # "retry"
           THEN probe' = [probe EXCEPT !.pc = "done", !.log = log,
                             !.result = Returned(h, probe.attempt + 1)]
           ELSE IF probe.attempt < MAX_RETRIES - 1
           THEN probe' = [probe EXCEPT !.pc = "sleep", !.log = log,
                             !.slept = Append(probe.slept,
                                RETRY_DELAYS[Min(probe.attempt,
                                                 Len(RETRY_DELAYS) - 1) + 1])]
           ELSE probe' = [probe EXCEPT !.pc = "done", !.log = log,
                             !.result = Returned(Exhausted(probe.fn), 0)]
    /\ UNCHANGED <<managerVars, asset_pool>>

\* asyncio.sleep returns and the loop starts the next attempt
HubWake ==
    /\ probe.fn \in HubMethods /\ probe.pc = "sleep"
    /\ probe' = [probe EXCEPT !.pc = "request", !.attempt = probe.attempt + 1]
    /\ UNCHANGED <<managerVars, asset_pool>>

HubNext == HubRespond \/ HubWake

HubSpec == HubInit /\ [][HubNext]_vars



\* ---- parse_resolutions called on any text (const.py:41-58) ----
\* a text is the sequence of its characters
\* str.strip(): the text without its leading and trailing blanks
RECURSIVE strip(_)
strip(s) ==
    IF Len(s) = 0 THEN s
    ELSE IF s[1] = " " THEN strip(Tail(s))
    ELSE IF s[Len(s)] = " " THEN strip(SubSeq(s, 1, Len(s) - 1))
    ELSE s

\* str.split(sep): the pieces of s between the occurrences of sep
RECURSIVE split(_, _)
split(s, sep) ==
    IF \A k \in 1..Len(s) : s[k] # sep
    THEN <<s>>
    ELSE LET k == CHOOSE j \in 1..Len(s) :
                     s[j] = sep /\ \A i \in 1..(j - 1) : s[i] # sep
         IN  <<SubSeq(s, 1, k - 1)>> \o split(SubSeq(s, k + 1, Len(s)), sep)

\* the texts int() takes: blanks around an optional sign and digits
Digits(s) == Len(s) > 0 /\ \A k \in 1..Len(s) : DigitValue(s[k]) >= 0
Unsigned(s) == IF Len(s) > 0 /\ s[1] \in {"-", "+"} THEN Tail(s) ELSE s
IntLiteral(s) == Digits(Unsigned(strip(s)))

\* int(s) of such a text
int(s) ==
    LET t == strip(s)
    IN  IF t[1] = "-" THEN 0 - Decimal(Tail(t)) ELSE Decimal(Unsigned(t))

\* a loop body that takes the text before the first "x" and the text
\* after the last one
ParsedEnds(res) ==
    LET parts == split(res, "x")
    IN  IF Len(parts) >= 2 /\ IntLiteral(parts[1]) /\ IntLiteral(parts[Len(parts)])
        THEN <<<<int(parts[1]), int(parts[Len(parts)])>>>>
        ELSE <<>>

\* the loop body (const.py:51-57) on one piece: the pair it appends, if any
Parsed(res) ==
    LET parts == split(res, "x")
    IN  IF Len(parts) = 2 /\ IntLiteral(parts[1]) /\ IntLiteral(parts[2])
        THEN <<<<int(parts[1]), int(parts[2])>>>>
        ELSE <<>>

RECURSIVE ParseAll(_)
ParseAll(pieces) ==
    IF Len(pieces) = 0 THEN <<>>
    ELSE Parsed(strip(pieces[1])) \o ParseAll(Tail(pieces))

parse_resolutions(resolutions_str) == ParseAll(split(resolutions_str, ","))

\* the pieces the texts are made of: well formed, blank, padded, signed,
\* and malformed in every way the loop body tells apart
Pieces ==
    {<<>>, <<" ">>, <<"1", "x", "2">>, <<" ", "2", "0", " ", "x", " ", "1", " ">>,
     <<"x">>, <<"1", "x", "2", "x", "3">>, <<"1", " ", "2", "x", "1">>,
     <<"-", "1", "x", "2">>, <<"1", "2", "x">>, <<"a", "x", "1">>, <<"1", "2">>,
     <<"1", "X", "2">>}

RECURSIVE join(_, _)
join(pieces, sep) ==
    IF Len(pieces) = 0 THEN <<>>
    ELSE IF Len(pieces) = 1 THEN pieces[1]
    ELSE pieces[1] \o <<sep>> \o join(Tail(pieces), sep)

ResolutionTexts ==
    {join(pieces, ",") :
        pieces \in UNION {[1..n -> Pieces] : n \in 0..MaxPieces}}

ParseInit ==
    /\ Constructed
    /\ asset_pool = <<>>
    /\ \E text \in ResolutionTexts :
          probe = [fn |-> "parse_resolutions", resolutions_str |-> text,
                   done |-> FALSE, result |-> <<>>]

ParseCall ==
    /\ probe.fn = "parse_resolutions" /\ ~probe.done
    /\ probe' = [probe EXCEPT !.done = TRUE,
                    !.result = parse_resolutions(probe.resolutions_str)]
    /\ UNCHANGED <<managerVars, asset_pool>>

ParseNext == ParseCall

ParseSpec == ParseInit /\ [][ParseNext]_vars


\* ---- ImmichHub.authenticate (hub.py:53-67) ----
\* what POST /api/auth/validateToken ends with: a response with a status
\* and the authStatus of its JSON body ("true", "false" or "missing"), or
\* aiohttp.ClientError, or asyncio.TimeoutError when the total timeout of
\* the session (hub.py:14) expires
AuthResponse(status, authStatus) ==
    [status |-> status, error |-> "none", authStatus |-> authStatus]
AuthRaised(error) == [status |-> 0, error |-> error, authStatus |-> "missing"]
NoAnswer == [status |-> 0, error |-> "none", authStatus |-> "missing"]

AuthAnswers ==
    {AuthResponse(200, "true"), AuthResponse(200, "false"),
     AuthResponse(200, "missing"), AuthResponse(401, "missing"),
     AuthResponse(500, "true"),
     AuthRaised("ClientError"), AuthRaised("TimeoutError")}

\* what the call gives its caller: the value returned, or the name of the
\* exception that leaves it; only aiohttp.ClientError is caught
authenticate(answer) ==
    IF answer.error = "ClientError" THEN "CannotConnect"
    ELSE IF answer.error # "none" THEN answer.error
    ELSE IF answer.status # 200 THEN "False"
    ELSE IF answer.authStatus = "true" THEN "True" ELSE "False"

NoAuth == [answer |-> NoAnswer, result |-> "none"]

\* the try block around hub.authenticate() (config_flow.py:150-195,
\* 316-323): "none" when it returned True, else the error shown
AuthError(result) ==
    CASE result = "True" -> "none"
      [] result = "False" -> "invalid_auth"
      [] result = "CannotConnect" -> "cannot_connect"
      [] OTHER -> "unknown"

\* ---- the hub a flow validates credentials with (hub.py:28-47) ----
\* no hub; a hub as constructed, without a session; a hub whose request is
\* under way, _get_session having opened the session
NoHub == [constructed |-> FALSE, session |-> "none", closes |-> 0]
ImmichHub == [constructed |-> TRUE, session |-> "none", closes |-> 0]
Requesting(hub) ==
    [hub EXCEPT !.session = "open"]

\* hub.close(): an open session is closed (hub.py:44-47)
close(hub) ==
    [hub EXCEPT !.session = IF @ = "open" THEN "closed" ELSE @,
                !.closes = @ + 1]

\* a try statement without its finally clause
NoFinally(hub) == hub

\* the finally clause of the try around hub.authenticate()
\* (config_flow.py:196-197, 324-325)
Finally(hub) == close(hub)

\* ---- the setup flow (config_flow.py:99-253) ----
\* sub in s
Contains(s, sub) ==
    \E k \in 1..(Len(s) - Len(sub) + 1) : SubSeq(s, k, k + Len(sub) - 1) = sub

\* s.rstrip(c)
RECURSIVE rstrip(_, _)
rstrip(s, c) ==
    IF Len(s) > 0 /\ s[Len(s)] = c THEN rstrip(SubSeq(s, 1, Len(s) - 1), c) ELSE s

\* the test of the loop over the parsed resolutions (config_flow.py:135, 296)
OutOfRange(w, h) == w < 640 \/ w > 3840 \/ h < 480 \/ h > 2160

\* config_flow.py:129-137, 290-298: the error of the resolutions, if any
ResolutionsError(resolutions) ==
    LET parsed == parse_resolutions(resolutions)
    IN  IF Len(parsed) = 0 THEN "invalid_resolutions"
        ELSE IF \E k \in 1..Len(parsed) : OutOfRange(parsed[k][1], parsed[k][2])
        THEN "invalid_resolutions"
        ELSE "none"

\* a path test that lets every path through
PathAccepted(bg_path) == FALSE

\* config_flow.py:141
PathRejected(bg_path) ==
    Contains(bg_path, <<".", ".">>) \/ (Len(bg_path) > 0 /\ bg_path[1] = "/")

\* errors["base"] after the validations of async_step_api_key
\* (config_flow.py:128-142), "none" for an empty errors dict
SetupErrors(user_input) ==
    IF PathRejected(user_input.background_path)
    THEN "invalid_path"
    ELSE ResolutionsError(user_input.resolutions)

\* texts a user submits as resolutions: the default, nothing usable, sizes
\* just outside and just inside the range, lists with a bad or a repeated
\* entry
Hd == <<"1", "9", "2", "0", "x", "1", "0", "8", "0">>
Word == <<"a", "b", "c">>
FlowResolutions ==
    {Hd, <<>>, Word,
     <<"6", "3", "9", "x", "4", "8", "0">>,
     <<"3", "8", "4", "1", "x", "2", "1", "6", "0">>,
     <<"6", "4", "0", "x", "4", "7", "9">>,
     <<"3", "8", "4", "0", "x", "2", "1", "6", "1">>,
     join(<<<<"6", "4", "0", "x", "4", "8", "0">>,
            <<"3", "8", "4", "0", "x", "2", "1", "6", "0">>>>, ","),
     join(<<Hd, <<"1", "0", "0", "x", "1", "0", "0">>>>, ","),
     join(<<Hd, Hd>>, ","),
     join(<<Word, Hd>>, ",")}

BackgroundPaths ==
    {<<"v", "a", "/", "b", "g">>, <<>>, <<".", ".", "/", "e", "t", "c">>,
     <<"a", "/", ".", ".", "/", "b">>, <<"a", ".", ".", "b">>,
     <<"/", "e", "t", "c">>}

FlowHosts == {<<"h">>, <<"h", "/">>}

SetupInputs ==
    [resolutions : FlowResolutions, background_path : BackgroundPaths,
     api_key : {"k1"}]
NoInput == [resolutions |-> <<>>, background_path |-> <<>>, api_key |-> ""]
NoEntry == [created |-> FALSE, host |-> <<>>, api_key |-> "",
            resolutions |-> <<>>, background_path |-> <<>>]

SetupInit ==
    /\ Constructed
    /\ asset_pool = <<>>
    /\ probe = [fn |-> "config_flow", pc |-> "user", host |-> <<>>,
                errors |-> "none", user_input |-> NoInput, submits |-> 0,
                requests |-> 0, auth |-> NoAuth, entry |-> NoEntry,
                hub |-> NoHub]

\* async_step_user with the host (config_flow.py:105-109): the api_key form
\* is shown
StepUser ==
    /\ probe.fn = "config_flow" /\ probe.pc = "user"
    /\ \E host \in FlowHosts :
          probe' = [probe EXCEPT !.pc = "api_key", !.host = rstrip(host, "/")]
    /\ UNCHANGED <<managerVars, asset_pool>>

\* async_step_api_key with a submission, up to "await hub.authenticate()"
\* or to the form shown again (config_flow.py:127-151, 199-253)
StepApiKey ==
    /\ probe.fn = "config_flow" /\ probe.pc = "api_key"
    /\ probe.submits < MaxSubmits
    /\ \E user_input \in SetupInputs :
       LET errors == SetupErrors(user_input)
           p == [probe EXCEPT !.user_input = user_input, !.auth = NoAuth,
                              !.submits = probe.submits + 1,
                              !.errors = errors]
       IN  IF errors = "none"
           THEN probe' = [p EXCEPT !.pc = "authenticate",
                                   !.requests = probe.requests + 1,
                                   !.hub = Requesting(ImmichHub)]
           ELSE probe' = p
    /\ UNCHANGED <<managerVars, asset_pool>>

\* hub.authenticate() returns or raises (config_flow.py:151-197): the entry
\* is created, or the form is shown again with the error
SetupAuthenticated ==
    /\ probe.fn = "config_flow" /\ probe.pc = "authenticate"
    /\ \E answer \in AuthAnswers :
       LET result == authenticate(answer)
           p == [probe EXCEPT !.auth = [answer |-> answer, result |-> result],
                              !.errors = AuthError(result)]
       IN  IF result = "True"
           THEN probe' = [p EXCEPT !.pc = "created",
                             !.hub = Finally(close(probe.hub)),
                             !.entry = [created |-> TRUE, host |-> probe.host,
                                api_key |-> probe.user_input.api_key,
                                resolutions |-> probe.user_input.resolutions,
                                background_path |->
                                    probe.user_input.background_path]]
           ELSE probe' = [p EXCEPT !.pc = "api_key",
                                   !.hub = Finally(probe.hub)]
    /\ UNCHANGED <<managerVars, asset_pool>>

SetupNext == StepUser \/ StepApiKey \/ SetupAuthenticated

SetupSpec == SetupInit /\ [][SetupNext]_vars


\* ---- the options flow (config_flow.py:264-428) ----
\* the host and the API key in force: those of the options once options
\* with them were saved, else those of the entry's data
\* (config_flow.py:304-309)
current_host(entry) ==
    IF entry.has_credentials THEN entry.options_host ELSE entry.data_host
current_api_key(entry) ==
    IF entry.has_credentials THEN entry.options_api_key ELSE entry.data_api_key

\* a non-empty str is truthy: a text, and a key
TruthyText(text) == Len(text) > 0
TruthyKey(key) == key # ""

\* the condition of the re-validation (config_flow.py:302-311)
MustAuthenticate(entry, user_input) ==
    LET new_host == rstrip(user_input.host, "/")
        new_api_key == user_input.api_key
    IN  \/ (TruthyText(new_host) /\ new_host # current_host(entry))
        \/ (TruthyKey(new_api_key) /\ new_api_key # current_api_key(entry))

\* the entry after async_create_entry(data=save_data)
\* (config_flow.py:329-342)
Saved(entry, user_input) ==
    [entry EXCEPT !.has_credentials = TRUE,
                  !.options_host = rstrip(user_input.host, "/"),
                  !.options_api_key = user_input.api_key,
                  !.options_resolutions = user_input.resolutions,
                  !.options_background_path = user_input.background_path]

OptionsHosts == {<<"h">>, <<"h", "/">>, <<"g">>, <<>>}
OptionsKeys == {"k1", "k2", ""}
OptionsPaths == {<<"v", "a", "/", "b", "g">>, <<".", ".", "/", "e", "t", "c">>}
OptionsInputs ==
    [host : OptionsHosts, api_key : OptionsKeys,
     resolutions : {Hd, Word, join(<<Hd, Hd>>, ",")},
     background_path : OptionsPaths]
NoOptionsInput == [host |-> <<>>, api_key |-> "", resolutions |-> <<>>,
                   background_path |-> <<>>]

\* the hub async_setup_entry constructs (__init__.py:21-26): the host of
\* the entry's data, the API key of the options if they hold one
EntryHub(entry) == [host |-> entry.data_host, api_key |-> current_api_key(entry)]

\* an entry as the setup flow creates it: the host and the key in its data,
\* none in its options (config_flow.py:155-187)
OptionsInit ==
    /\ Constructed
    /\ asset_pool = <<>>
    /\ probe = [fn |-> "options_flow", pc |-> "init",
                entry |-> [data_host |-> <<"h">>, data_api_key |-> "k1",
                           has_credentials |-> FALSE, options_host |-> <<>>,
                           options_api_key |-> "", options_resolutions |-> Hd,
                           options_background_path |-> <<"v", "a", "/", "b", "g">>],
                errors |-> "none", user_input |-> NoOptionsInput,
                submits |-> 0, requests |-> 0, saves |-> 0, auth |-> NoAuth,
                hub |-> NoHub,
                loaded |-> [host |-> <<"h">>, api_key |-> "k1"],
                reloads |-> 0]

\* async_step_init with a submission, up to "await hub.authenticate()", to
\* the options saved, or to the form shown again (config_flow.py:288-317,
\* 327-342); a flow that has saved is over and the next submission belongs
\* to a new one
StepInit ==
    /\ probe.fn = "options_flow" /\ probe.pc = "init"
    /\ probe.submits < MaxSubmits
    /\ \E user_input \in OptionsInputs :
       LET errors == ResolutionsError(user_input.resolutions)
           p == [probe EXCEPT !.user_input = user_input, !.auth = NoAuth,
                              !.submits = probe.submits + 1,
                              !.errors = errors]
       IN  IF errors # "none"
           THEN probe' = p
           ELSE IF MustAuthenticate(probe.entry, user_input)
           THEN probe' = [p EXCEPT !.pc = "authenticate",
                                   !.requests = probe.requests + 1,
                                   !.hub = Requesting(ImmichHub)]
           ELSE probe' = [p EXCEPT !.entry = Saved(probe.entry, user_input),
                                   !.saves = probe.saves + 1]
    /\ UNCHANGED <<managerVars, asset_pool>>

\* hub.authenticate() returns or raises (config_flow.py:317-342)
OptionsAuthenticated ==
    /\ probe.fn = "options_flow" /\ probe.pc = "authenticate"
    /\ \E answer \in AuthAnswers :
       LET result == authenticate(answer)
           p == [probe EXCEPT !.auth = [answer |-> answer, result |-> result],
                              !.errors = AuthError(result), !.pc = "init",
                              !.hub = Finally(probe.hub)]
       IN  IF AuthError(result) = "none"
           THEN probe' = [p EXCEPT !.entry = Saved(probe.entry, probe.user_input),
                                   !.saves = probe.saves + 1]
           ELSE probe' = p
    /\ UNCHANGED <<managerVars, asset_pool>>

\* the update listener reloads the entry once options were saved
\* (__init__.py:50-52), and async_setup_entry constructs its hub
\* (__init__.py:18-26)
ReloadEntry ==
    /\ probe.fn = "options_flow" /\ probe.pc = "init"
    /\ probe.reloads < probe.saves
    /\ probe' = [probe EXCEPT !.loaded = EntryHub(probe.entry),
                              !.reloads = probe.saves]
    /\ UNCHANGED <<managerVars, asset_pool>>

OptionsNext == StepInit \/ OptionsAuthenticated \/ ReloadEntry

OptionsSpec == OptionsInit /\ [][OptionsNext]_vars

\* ---- either flow: the setup of an entry, or the options of one ----
FlowInit == SetupInit \/ OptionsInit

FlowNext == SetupNext \/ OptionsNext

FlowSpec == FlowInit /\ [][FlowNext]_vars


\* ---- the image entities of one config entry (image.py:540-775) ----
\* the lists parse_resolutions gives async_setup_entry: the flows accept a
\* text that names a resolution twice
ResolutionLists == UNION {[1..n -> Resolutions] : n \in 1..MaxEntities}

\* ImmichSlideshowImage.__init__ (image.py:626-646); None bytes are NoRender,
\* image_last_updated is the number of times it was set, state_writes the
\* number of async_write_ha_state calls
Entity(width, height, is_primary) ==
    [target_width |-> width, target_height |-> height,
     is_primary |-> is_primary, added |-> FALSE, timer |-> FALSE,
     current_image_bytes |-> NoRender, image_last_updated |-> 0,
     state_writes |-> 0]

\* is_primary of the k-th entity (image.py:596)
IsPrimary(resolutions, k) == resolutions[k] = resolutions[1]

\* the loop of async_setup_entry (image.py:586-602)
Entities(resolutions) ==
    [k \in 1..Len(resolutions) |->
        Entity(resolutions[k][1], resolutions[k][2], IsPrimary(resolutions, k))]

NoServed == [entity |-> 0, bytes |-> NoRender]

\* a manager set to recent photos and single images, whose remote source
\* gives short answers; no entity exists yet
EntityInit ==
    /\ dual_portrait = FALSE
    /\ mix_ratio = 0
    /\ asset_pool = <<>>
    /\ pool_empty = FALSE
    /\ current_img1 = NoImage
    /\ current_img2 = NoImage
    /\ is_dual = FALSE
    /\ current_asset1 = NoAsset
    /\ current_asset2 = NoAsset
    /\ refresh_lock = 0
    /\ pc = [t \in Tasks |-> "idle"]
    /\ frame = [t \in Tasks |-> NoFrame]
    /\ outcome = [value |-> "none", path |-> "none"]
    /\ rendered = NoCall
    /\ committed = [img1 |-> NoImage, img2 |-> NoImage, dual |-> FALSE]
    /\ popcount = [i \in Ids |-> 0]
    /\ appended = [i \in Ids |-> 0]
    /\ refilled = 0
    /\ last_refill = NoRefill
    /\ bulk = MaxBulk
    /\ faults = 0
    /\ \E resolutions \in ResolutionLists :
          probe = [fn |-> "entities", pc |-> "setup",
                   resolutions |-> resolutions, entities |-> <<>>,
                   caller |-> [t \in Tasks |-> 0],
                   adding |-> [t \in Tasks |-> FALSE],
                   handled |-> [t \in Tasks |-> FALSE],
                   served |-> NoServed]

\* a refresh() has returned to the entity that awaits it, which goes on
\* without giving up control (image.py:682-686)
Pending(t) == pc[t] = "done" /\ probe.caller[t] # 0 /\ ~probe.handled[t]
NoPending == \A t \in Tasks : ~Pending(t)

\* the refresh() calls are numbered in the order they are made
NextCall == CHOOSE t \in Tasks : pc[t] = "idle" /\ \A u \in Tasks : u < t => pc[u] # "idle"

\* _generate_image (image.py:691-705): the bytes the entity holds afterwards
GeneratedBytes(entity) ==
    LET image_bytes == generate_image(entity.target_width, entity.target_height)
    IN  IF image_bytes # NoRender THEN image_bytes ELSE entity.current_image_bytes

\* _generate_image (image.py:691-705): the entity afterwards
_generate_image(entity) ==
    IF generate_image(entity.target_width, entity.target_height) # NoRender
    THEN [entity EXCEPT !.current_image_bytes = GeneratedBytes(entity),
                        !.image_last_updated = @ + 1]
    ELSE entity

\* a _do_refresh that regenerates and writes the state whatever refresh()
\* returned
RegeneratedAnyway(entity, success) ==
    [_generate_image(entity) EXCEPT !.state_writes = @ + 1]

\* _do_refresh of the entity once manager.refresh() has returned
\* (image.py:683-686): the entity afterwards
Refreshed(entity, success) ==
    IF success
    THEN [_generate_image(entity) EXCEPT !.state_writes = @ + 1]
    ELSE entity

\* async_setup_entry creates the entities (image.py:586-602)
SetupEntry ==
    /\ probe.fn = "entities" /\ probe.pc = "setup"
    /\ probe' = [probe EXCEPT !.pc = "running",
                              !.entities = Entities(probe.resolutions)]
    /\ rendered' = NoCall
    /\ last_refill' = NoRefill
    /\ UNCHANGED <<dual_portrait, mix_ratio, poolVars, metaVars, imgVars, ctlVars,
                   appended, refilled, bulk, faults>>

\* entity e calls manager.refresh() and waits for it (image.py:682, 262-264)
CallsRefresh(e, adding) ==
    /\ \E t \in Tasks : pc[t] = "idle"
    /\ pc' = [pc EXCEPT ![NextCall] = "waiting"]
    /\ probe' = [probe EXCEPT !.entities[e].added = TRUE,
                              !.caller[NextCall] = e,
                              !.adding[NextCall] = adding]
    /\ rendered' = NoCall
    /\ last_refill' = NoRefill
    /\ UNCHANGED <<dual_portrait, mix_ratio, poolVars, metaVars, imgVars, frame,
                   refresh_lock, outcome, appended, refilled, bulk, faults>>

\* async_added_to_hass (image.py:653-667): a primary entity refreshes, any
\* other renders what the manager holds
AddedToHass(e) ==
    /\ probe.fn = "entities" /\ probe.pc = "running" /\ NoPending
    /\ e \in 1..Len(probe.entities) /\ ~probe.entities[e].added
    /\ IF probe.entities[e].is_primary
       THEN CallsRefresh(e, TRUE)
       ELSE /\ probe' = [probe EXCEPT
                            !.entities[e] =
                                [_generate_image(probe.entities[e])
                                    EXCEPT !.added = TRUE]]
            /\ rendered' = generate_image(probe.entities[e].target_width,
                                          probe.entities[e].target_height)
            /\ last_refill' = NoRefill
            /\ UNCHANGED <<dual_portrait, mix_ratio, poolVars, metaVars, imgVars,
                           ctlVars, appended, refilled, bulk, faults>>

\* the interval timer of an entity fires: _async_refresh (image.py:676-678)
TimerFires(e) ==
    /\ probe.fn = "entities" /\ probe.pc = "running" /\ NoPending
    /\ e \in 1..Len(probe.entities) /\ probe.entities[e].timer
    /\ CallsRefresh(e, FALSE)

\* manager.refresh() has returned to _do_refresh of the entity
\* (image.py:682-686), and from there to async_added_to_hass, which starts
\* the timer (image.py:660-664)
RefreshReturned(t) ==
    /\ probe.fn = "entities" /\ Pending(t)
    /\ LET e == probe.caller[t]
           success == outcome.value = "True"
       IN  /\ probe' = [probe EXCEPT !.handled[t] = TRUE,
                           !.entities[e] =
                               [Refreshed(probe.entities[e], success)
                                   EXCEPT !.timer = @ \/ probe.adding[t]]]
           /\ rendered' = IF success
                          THEN generate_image(probe.entities[e].target_width,
                                              probe.entities[e].target_height)
                          ELSE NoCall
    /\ last_refill' = NoRefill
    /\ UNCHANGED <<dual_portrait, mix_ratio, poolVars, metaVars, imgVars, ctlVars,
                   appended, refilled, bulk, faults>>

\* async_image (image.py:770-775): the bytes are generated if the entity has
\* none, and returned
AsyncImage(e) ==
    /\ probe.fn = "entities" /\ probe.pc = "running" /\ NoPending
    /\ e \in 1..Len(probe.entities) /\ probe.entities[e].added
    /\ LET entity == probe.entities[e]
           generates == entity.current_image_bytes = NoRender
           after == IF generates THEN _generate_image(entity) ELSE entity
       IN  /\ probe' = [probe EXCEPT
                           !.entities[e] = after,
                           !.served = [entity |-> e,
                                       bytes |-> after.current_image_bytes]]
           /\ rendered' = IF generates
                          THEN generate_image(entity.target_width,
                                              entity.target_height)
                          ELSE NoCall
    /\ last_refill' = NoRefill
    /\ UNCHANGED <<dual_portrait, mix_ratio, poolVars, metaVars, imgVars, ctlVars,
                   appended, refilled, bulk, faults>>

\* with recent photos only and single images a refresh() has four spans
EntityNext ==
    \/ SetupEntry
    \/ \E e \in 1..MaxEntities : AddedToHass(e)
    \/ \E e \in 1..MaxEntities : TimerFires(e)
    \/ \E t \in Tasks : RefreshReturned(t)
    \/ \E e \in 1..MaxEntities : AsyncImage(e)
    \/ \E t \in Tasks : NoPending /\ Acquire(t)
    \/ \E t \in Tasks : NoPending /\ RecentReturn(t)
    \/ \E t \in Tasks : NoPending /\ EnrichReturn(t)
    \/ \E t \in Tasks : NoPending /\ DownloadReturn(t)

EntitySpec == EntityInit /\ [][EntityNext]_vars


\* ---- the geometry of a rendering (image.py:462-505) ----
\* int() of the quotient n / d, d > 0: the fraction is dropped
Truncated(n, d) == IF n >= 0 THEN n \div d ELSE 0 - ((0 - n) \div d)

\* a scale that fits the source inside the target box
ScaleToFit(src_w, src_h, target_w, target_h) ==
    IF src_w * target_h > target_w * src_h
    THEN [num |-> target_w, den |-> src_w]
    ELSE [num |-> target_h, den |-> src_h]

\* scale (image.py:488-494), as the fraction num / den; src_ratio >
\* target_ratio compares src_w / src_h with target_w / target_h
Scale(src_w, src_h, target_w, target_h) ==
    IF src_w * target_h > target_w * src_h
    THEN [num |-> target_h, den |-> src_h]
    ELSE [num |-> target_w, den |-> src_w]

\* _resize_and_center_crop with the quotients taken exactly: the size of
\* the scaled image, the crop box and the size of the image returned
_resize_and_center_crop(src_w, src_h, target_w, target_h) ==
    LET scale == Scale(src_w, src_h, target_w, target_h)
        new_w == Truncated(src_w * scale.num, scale.den)
        new_h == Truncated(src_h * scale.num, scale.den)
        left == (new_w - target_w) \div 2
        top == Truncated((new_h - target_h) * 3, 10)
        right == left + target_w
        bottom == top + target_h
    IN  [scaled |-> <<new_w, new_h>>,
         left |-> left, top |-> top, right |-> right, bottom |-> bottom,
         size |-> <<right - left, bottom - top>>]

\* a half that is rounded up
HalfRoundedUp(target_w) == (target_w + 1) \div 2

\* half_w (image.py:470)
half_w(target_w) == target_w \div 2

\* _compose_side_by_side (image.py:470-477): the canvas, and where each
\* resized image is pasted and how large it is
_compose_side_by_side(img1, img2, target_w, target_h) ==
    LET img1_resized ==
            _resize_and_center_crop(img1[1], img1[2], half_w(target_w), target_h)
        img2_resized ==
            _resize_and_center_crop(img2[1], img2[2], half_w(target_w), target_h)
    IN  [canvas |-> <<target_w, target_h>>,
         left |-> [x |-> 0, y |-> 0, size |-> img1_resized.size],
         right |-> [x |-> half_w(target_w), y |-> 0, size |-> img2_resized.size]]

Sizes == (1..MaxSide) \X (1..MaxSide)
\* the second image of a composition: a square, a tall and a wide one
SecondSizes == {<<1, 1>>, <<1, MaxSide>>, <<MaxSide, 1>>}

GeometryInit ==
    /\ Constructed
    /\ asset_pool = <<>>
    /\ \E src \in Sizes, target \in Sizes :
          \/ probe = [fn |-> "_resize_and_center_crop", img |-> src, img2 |-> src,
                      target_w |-> target[1], target_h |-> target[2],
                      done |-> FALSE]
          \/ \E second \in SecondSizes :
                probe = [fn |-> "_compose_side_by_side", img |-> src,
                         img2 |-> second, target_w |-> target[1],
                         target_h |-> target[2], done |-> FALSE]

ResizeCall ==
    /\ probe.fn = "_resize_and_center_crop" /\ ~probe.done
    /\ probe' = [fn |-> probe.fn, img |-> probe.img, img2 |-> probe.img2,
                 target_w |-> probe.target_w, target_h |-> probe.target_h,
                 done |-> TRUE,
                 result |-> _resize_and_center_crop(probe.img[1], probe.img[2],
                                probe.target_w, probe.target_h)]
    /\ UNCHANGED <<managerVars, asset_pool>>

ComposeCall ==
    /\ probe.fn = "_compose_side_by_side" /\ ~probe.done
    /\ probe' = [fn |-> probe.fn, img |-> probe.img, img2 |-> probe.img2,
                 target_w |-> probe.target_w, target_h |-> probe.target_h,
                 done |-> TRUE,
                 result |-> _compose_side_by_side(probe.img, probe.img2,
                                probe.target_w, probe.target_h)]
    /\ UNCHANGED <<managerVars, asset_pool>>

GeometryNext == ResizeCall \/ ComposeCall

GeometrySpec == GeometryInit /\ [][GeometryNext]_vars


\* ---- the detail fetches of one refill (image.py:400-426) ----
\* the candidates of the examined refill: n records with the ids 1..n
Candidates(n) == [k \in 1..n |-> Lite(k, 0)]

\* a gate that never closes
NeverLocked(value) == TRUE

\* asyncio.Semaphore: acquire() goes through while the counter is positive
NotLocked(value) == value > 0

\* enrich_asset of each candidate: created by gather, past the semaphore and
\* waiting for get_asset_info, or returned with the record or with None
InFlight == {k \in DOMAIN probe.state : probe.state[k] = "fetching"}
Completed(k) == probe.state[k] \in {"enriched", "none"}

GatherInit ==
    /\ Constructed
    /\ asset_pool = <<>>
    /\ \E n \in 1..MaxCandidates :
          probe = [fn |-> "gather", assets |-> Candidates(n),
                   state |-> [k \in 1..n |-> "created"],
                   semaphore |-> API_CONCURRENCY_LIMIT, done |-> FALSE]

\* "async with semaphore" lets candidate k through and get_asset_info is
\* called (image.py:404-405)
EnrichAcquire(k) ==
    /\ probe.fn = "gather"
    /\ probe.state[k] = "created"
    /\ NotLocked(probe.semaphore)
    /\ probe' = [probe EXCEPT !.state[k] = "fetching",
                              !.semaphore = probe.semaphore - 1]
    /\ UNCHANGED <<managerVars, asset_pool>>

\* get_asset_info of candidate k returns the details or None, and the
\* semaphore is released on leaving "async with" (image.py:405-416)
InfoReturn(k) ==
    /\ probe.fn = "gather"
    /\ probe.state[k] = "fetching"
    /\ \E result \in {"enriched", "none"} :
          probe' = [probe EXCEPT !.state[k] = result,
                                 !.semaphore = probe.semaphore + 1]
    /\ UNCHANGED <<managerVars, asset_pool>>

\* gather returns once every enrich_asset has returned; the enriched
\* records are shuffled and appended to the pool (image.py:419-426)
GatherReturn ==
    /\ probe.fn = "gather" /\ ~probe.done
    /\ \A k \in DOMAIN probe.state : Completed(k)
    /\ LET kept == SelectSeq(probe.assets, LAMBDA a : probe.state[a.id] = "enriched")
           enriched == [k \in 1..Len(kept) |-> Enriched(kept[k])]
       IN  \E enriched_assets \in Shuffles(enriched) :
              asset_pool' = Capped(asset_pool \o enriched_assets)
    /\ probe' = [probe EXCEPT !.done = TRUE]
    /\ UNCHANGED managerVars

GatherNext ==
    \/ \E k \in DOMAIN probe.state : EnrichAcquire(k)
    \/ \E k \in DOMAIN probe.state : InfoReturn(k)
    \/ GatherReturn

\* the event loop runs a coroutine that can go on, and get_asset_info
\* returns: each request ends after API_TIMEOUT at the latest and is tried
\* MAX_RETRIES times at most (hub.py:14-16, 171-197)
GatherSpec == GatherInit /\ [][GatherNext]_vars /\ WF_vars(GatherNext)

\* ---- properties ----

\* C1: concurrent refresh() calls are serialized: at most one caller is
\* inside the refresh body (_do_refresh) at any time, and that caller holds
\* the lock, so the pops and the refill of a second caller start only after
\* the first caller has returned.
C1_RefreshSerialized ==
    /\ Cardinality({t \in Tasks : InBody(t)}) <= 1
    /\ \A t \in Tasks : InBody(t) => refresh_lock = t

\* one caller is inside the body while another waits for the lock
C1_Witness ==
    \E t, u \in Tasks : InBody(t) /\ pc[u] = "waiting"

\* C2: whatever the remote sources return, more than requested included,
\* the pool holds at most MAX_POOL_SIZE records once a refill has returned.
C2_PoolBounded ==
    /\ refilled <= MAX_POOL_SIZE
    /\ Len(asset_pool) <= MAX_POOL_SIZE

\* a long answer has been cut: the refill left a full pool
C2_Witness ==
    /\ bulk > 0
    /\ refilled = MAX_POOL_SIZE

C4_PoolDeduplicated ==
    \A j, k \in 1..Len(asset_pool) :
        j # k => asset_pool[j].id # asset_pool[k].id

\* C5: once a refresh has returned because the bytes of the popped record
\* could not be downloaded or decoded, it has returned False, is_available
\* is False and generate_image returns None.
C5_DecodeFailureUnavailable ==
    outcome.path \in {"no_bytes", "decode_error"} =>
        /\ outcome.value = "False"
        /\ ~is_available
        /\ rendered # NoCall => rendered = NoRender

\* C6: once a refresh has returned False because the pool was exhausted or
\* a download returned no bytes, the images and the dual flag stored by the
\* last successful refresh are still loaded.
C6_FailureKeepsImages ==
    (outcome.path \in {"pool_empty", "no_bytes"} /\ refresh_lock = 0) =>
        /\ current_img1 = committed.img1
        /\ current_img2 = committed.img2
        /\ is_dual = committed.dual

\* C7: a generate_image call changes neither the pool, nor the loaded
\* images, nor is_dual, nor the stored asset records, nor the availability
\* flag, whatever the state and the target size.
C7_RenderChangesNothing ==
    [][rendered' # NoCall =>
          UNCHANGED <<asset_pool, current_img1, current_img2, is_dual,
                      current_asset1, current_asset2, pool_empty>>]_vars

\* generate_image has rendered two loaded images
C7_Witness == rendered.kind = "dual"

\* C8: a generate_image call made while a refresh holds the lock renders
\* the images stored by the last successful refresh.
C8_RenderDuringRefreshIsCommitted ==
    (rendered # NoCall /\ refresh_lock # 0) =>
        \E r \in Resolutions :
            rendered = RenderOf(committed.img1, committed.img2,
                                committed.dual, r[1], r[2])

\* C9: the session is empty, single or dual in every state: is_dual is
\* True exactly while two images are loaded, and image 2 is never loaded
\* without image 1.
C9_ExactlyOneMode ==
    \/ current_img1 = NoImage /\ current_img2 = NoImage /\ ~is_dual
    \/ current_img1 # NoImage /\ current_img2 = NoImage /\ ~is_dual
    \/ current_img1 # NoImage /\ current_img2 # NoImage /\ is_dual

\* C10: once a refresh has returned, asset1 is set exactly when image 1 is
\* loaded and is the record image 1 was decoded from, and asset2 is set
\* exactly when image 2 is loaded.
C10_MetadataMatchesImages ==
    (outcome.value # "none" /\ refresh_lock = 0) =>
        /\ current_asset1 # NoAsset <=> current_img1 # NoImage
        /\ current_img1 # NoImage => current_img1.src = current_asset1.id
        /\ current_asset2 # NoAsset <=> current_img2 # NoImage

\* C11: with mix_ratio = 0 no caller is ever waiting for an answer of
\* get_memory_assets: no refill calls the memories source.
C11_NoMemoriesAtZero == mix_ratio = 0 => \A t \in Tasks : pc[t] # "mem"

\* with mix_ratio = 0 a refill is under way and waits for the recent photos
C11_Witness == mix_ratio = 0 /\ \E t \in Tasks : pc[t] = "recent"

\* C12: with mix_ratio = 100 (a refill starts with fewer than
\* REFILL_THRESHOLD records, hence with POOL_FETCH_SIZE free slots) no
\* caller is ever waiting for an answer of search_random_recent.
C12_NoRecentAtHundred == mix_ratio = 100 => \A t \in Tasks : pc[t] # "recent"

\* C13: _pop_from_pool(count, portrait_only) returns the first
\* min(count, number of matching records) matching records of the pool in
\* pool order and leaves exactly the other records in their order; when no
\* record matches it returns nothing and the pool is unchanged.
C13_PopFirstMatches ==
    (probe.fn = "_pop_from_pool" /\ probe.done) =>
        LET pool == probe.pool
            matching == {i \in 1..Len(pool) : Matches(pool[i], probe.portrait_only)}
            taken == {i \in matching :
                        Cardinality({j \in matching : j < i}) < probe.count}
        IN  /\ probe.result = SubseqAt(pool, taken)
            /\ asset_pool = SubseqAt(pool, (1..Len(pool)) \ taken)
            /\ Len(probe.result) =
                  IF probe.count < Cardinality(matching)
                  THEN probe.count ELSE Cardinality(matching)
            /\ matching = {} => probe.result = <<>> /\ asset_pool = pool

\* a portrait-only pop has skipped a landscape record and handed two
\* portraits out
C13_Witness ==
    /\ probe.fn = "_pop_from_pool" /\ probe.done /\ probe.portrait_only
    /\ Len(probe.pool) > 0 /\ ~is_portrait(probe.pool[1])
    /\ Len(probe.result) = 2

\* C14: is_portrait is true exactly when width and height are positive and
\* the height after rotation exceeds the width after rotation, the two
\* being swapped when the orientation is 5, 6, 7 or 8, given as an int or
\* as a string of digits; a missing or non-numeric orientation does not
\* rotate.
C14_PortraitAfterRotation ==
    (probe.fn = "is_portrait" /\ probe.done) =>
        LET o == probe.asset.orientation
            numeric == /\ o.kind = "str" /\ Len(o.str) > 0
                       /\ \A k \in 1..Len(o.str) : o.str[k] \in {"0", "6", "8"}
            swapped == \/ o.kind = "int" /\ o.int \in 5..8
                       \/ numeric /\ Decimal(o.str) \in 5..8
            w == IF swapped THEN probe.asset.originalHeight
                            ELSE probe.asset.originalWidth
            h == IF swapped THEN probe.asset.originalWidth
                            ELSE probe.asset.originalHeight
        IN  probe.result <=> (probe.asset.originalWidth > 0
                              /\ probe.asset.originalHeight > 0 /\ h > w)

\* a record stored wider than high with the orientation "06" is a portrait
C14_Witness ==
    /\ probe.fn = "is_portrait" /\ probe.done /\ probe.result
    /\ probe.asset.orientation = OrientationStr(<<"0", "6">>)
    /\ probe.asset.originalWidth > probe.asset.originalHeight

\* C15: a refresh that finds the pool empty after the refill step returns
\* False, pops nothing and leaves is_available False; is_available becomes
\* True again only in the step in which a later refresh has refilled the
\* pool and found it non-empty.
C15_EmptyPoolUnavailable ==
    /\ [](outcome.path = "pool_empty" /\ refresh_lock = 0 =>
             outcome.value = "False" /\ ~is_available /\ Len(asset_pool) = 0)
    /\ [][(~pool_empty /\ pool_empty') =>
             (/\ outcome'.path = "pool_empty" /\ refresh_lock' = 0
              /\ popcount' = popcount /\ asset_pool' = <<>>)]_vars
    /\ [][(pool_empty /\ ~pool_empty') =>
             (/\ refresh_lock # 0 /\ pc[refresh_lock] = "enrich"
              /\ refilled' > 0)]_vars

\* after a refresh that found the pool empty, the next refresh has found
\* records and is downloading one
C15_Witness ==
    /\ outcome.path = "pool_empty"
    /\ refresh_lock # 0 /\ is_available

\* C16: when a dual attempt has fallen through although the bytes of the
\* first record had arrived and decode (so the second record failed), and
\* the first record is then downloaded again and decodes, refresh returns
\* True with the first record alone: image 2 and asset2 are absent and
\* is_dual is False.
C16_DualFallsBackToSingle ==
    [][\A t \in Tasks :
         (/\ pc[t] = "dl" /\ frame[t].second # NoAsset /\ frame[t].img1_bytes.ok
          /\ pc'[t] = "done" /\ faults' = faults) =>
         (/\ outcome' = [value |-> "True", path |-> "single_second_failed"]
          /\ current_img1' # NoImage /\ current_img1'.src = frame[t].chosen.id
          /\ current_asset1' = frame[t].chosen
          /\ current_img2' = NoImage /\ current_asset2' = NoAsset
          /\ ~is_dual')]_vars

\* a dual image was stored, then a dual attempt lost its second record and
\* the refresh has returned with the first record alone
C16_Witness ==
    /\ outcome = [value |-> "True", path |-> "single_second_failed"]
    /\ refresh_lock = 0 /\ popcount[1] >= 4
    /\ current_img1 # NoImage /\ ~is_dual

\* C17: get_memory_assets(max_years) returns, in order, exactly the assets
\* of type IMAGE of the memories that carry a year and, when max_years > 0,
\* are at most max_years old, each tagged with the year of its memory.
C17_MemoryAssetsFiltered ==
    (probe.fn = "get_memory_assets" /\ probe.done) =>
        LET ms == probe.memories
            wanted == {p \in (1..Len(ms)) \X (1..MaxAssets + 1) :
                         /\ p[2] <= Len(ms[p[1]].assets)
                         /\ ms[p[1]].assets[p[2]].type = "IMAGE"
                         /\ ms[p[1]].has_year
                         /\ probe.max_years > 0 =>
                               CurrentYear - ms[p[1]].year <= probe.max_years}
            Before(q, p) == q[1] < p[1] \/ (q[1] = p[1] /\ q[2] < p[2])
            Rank(p) == Cardinality({q \in wanted : Before(q, p)}) + 1
        IN  /\ Len(probe.result) = Cardinality(wanted)
            /\ \A p \in wanted :
                  /\ probe.result[Rank(p)].id = ms[p[1]].assets[p[2]].id
                  /\ probe.result[Rank(p)].memory_year = ms[p[1]].year

\* with max_years = 5 the image of a memory of nine years ago is dropped
\* and the image of a memory of five years ago is returned with its year
C17_Witness ==
    /\ probe.fn = "get_memory_assets" /\ probe.done /\ probe.max_years = 5
    /\ Len(probe.memories) = 2
    /\ probe.memories[1].year = CurrentYear - 9
    /\ probe.memories[1].assets = <<[id |-> 1, type |-> "IMAGE"]>>
    /\ probe.memories[2].year = CurrentYear - 5
    /\ probe.result = <<[id |-> 2, type |-> "IMAGE",
                         memory_year |-> CurrentYear - 5]>>

\* C18: search_random_recent and get_memories make at most 3 attempts,
\* whatever status, ClientError or TimeoutError ends an attempt; they go on
\* only while no attempt was answered 200, return the payload of the first
\* attempt answered 200, and return [] once 3 attempts have failed.
C18_ListMethodsRetry ==
    probe.fn \in ListMethods =>
        LET ok == {k \in 1..Len(probe.log) : probe.log[k].status = 200}
        IN  /\ Len(probe.log) <= 3
            /\ probe.pc # "done" => ok = {}
            /\ probe.pc = "done" =>
                  /\ probe.result.kind \in {"payload", "empty_list"}
                  /\ ok # {} =>
                        /\ probe.result = [kind |-> "payload", from |-> Len(probe.log)]
                        /\ ok = {Len(probe.log)}
                  /\ ok = {} =>
                        /\ probe.result = [kind |-> "empty_list", from |-> 0]
                        /\ Len(probe.log) = 3

\* a timeout, then a 500, then a 200 whose payload is returned
C18_Witness ==
    /\ probe.fn = "get_memories" /\ probe.pc = "done"
    /\ Len(probe.log) = 3
    /\ probe.log[1].error = "TimeoutError" /\ probe.log[2].status = 500
    /\ probe.result = [kind |-> "payload", from |-> 3]

\* C19: get_asset_info returns None at once on a 404, with no sleep and no
\* further attempt; after any other status but 200, a ClientError or a
\* TimeoutError it sleeps and retries, 3 attempts in all, and returns None
\* when all have failed.
C19_InfoStopsOn404 ==
    probe.fn = "get_asset_info" =>
        LET n == Len(probe.log)
            Final(a) == a.error = "none" /\ a.status \in {200, 404}
        IN  /\ n <= 3
            /\ \A k \in 1..(n - 1) : ~Final(probe.log[k])
            /\ probe.pc = "sleep" => ~Final(probe.log[n]) /\ Len(probe.slept) = n
            /\ probe.pc = "done" =>
                  /\ Len(probe.slept) = n - 1
                  /\ probe.log[n].status = 404 =>
                        probe.result = [kind |-> "none", from |-> 0]
                  /\ probe.log[n].status = 200 =>
                        probe.result = [kind |-> "payload", from |-> n]
                  /\ ~Final(probe.log[n]) =>
                        n = 3 /\ probe.result = [kind |-> "none", from |-> 0]

\* a 500 is retried after a sleep and the 404 that follows ends the call
C19_Witness ==
    /\ probe.fn = "get_asset_info" /\ probe.pc = "done"
    /\ Len(probe.log) = 2 /\ probe.log[1].status = 500
    /\ probe.log[2].status = 404
    /\ probe.slept = <<1>> /\ probe.result.kind = "none"

\* C20: download_asset returns bytes only from a 200 response whose
\* content type contains "image"; a 200 response of another content type
\* gives None at once; other statuses, ClientError and TimeoutError are
\* retried, 3 attempts in all, and then give None.
C20_DownloadOnlyImages ==
    probe.fn = "download_asset" =>
        LET n == Len(probe.log)
        IN  /\ n <= 3
            /\ \A k \in 1..(n - 1) : probe.log[k].status # 200
            /\ probe.pc = "sleep" => probe.log[n].status # 200
            /\ probe.pc = "done" =>
                  /\ probe.result.kind \in {"bytes", "none"}
                  /\ probe.result.kind = "bytes" <=>
                        /\ probe.log[n].status = 200
                        /\ \E k \in 1..Len(probe.log[n].content_type) :
                              probe.log[n].content_type[k] = "image"
                  /\ probe.result.kind = "bytes" => probe.result.from = n
                  /\ probe.log[n].status # 200 => n = 3

\* a failed attempt is retried and the 200 that follows carries HTML: None
C20_Witness ==
    /\ probe.fn = "download_asset" /\ probe.pc = "done"
    /\ Len(probe.log) = 2 /\ probe.log[1].error = "ClientError"
    /\ probe.log[2] = Response(200, <<"text", "html">>)
    /\ probe.result.kind = "none"


\* C22: parse_resolutions returns, in the order of the text, one
\* (width, height) pair for each comma-separated piece that, once trimmed,
\* is two integers around a single "x", blanks around each number being
\* ignored; every other piece is skipped, and a text without any such piece,
\* the empty text included, gives the empty list.
C22_ParseResolutions ==
    (probe.fn = "parse_resolutions" /\ probe.done) =>
        LET pieces == split(probe.resolutions_str, ",")
            \* the piece is "<integer>x<integer>" with the x at position k
            At(piece, k) ==
                /\ piece[k] = "x"
                /\ IntLiteral(SubSeq(piece, 1, k - 1))
                /\ IntLiteral(SubSeq(piece, k + 1, Len(piece)))
            Valid(piece) == \E k \in 1..Len(piece) : At(piece, k)
            valid == SelectSeq(pieces, Valid)
        IN  /\ Len(probe.result) = Len(valid)
            /\ \A n \in 1..Len(valid) :
                  \E k \in 1..Len(valid[n]) :
                     /\ At(valid[n], k)
                     /\ probe.result[n] = <<int(SubSeq(valid[n], 1, k - 1)),
                                            int(SubSeq(valid[n], k + 1, Len(valid[n])))>>
            /\ (Len(valid) = 0 => probe.result = <<>>)

\* "1x2x3, 20 x 1 ,1x2": the first piece is skipped, the padded one and the
\* last one are returned in this order
C22_Witness ==
    /\ probe.fn = "parse_resolutions" /\ probe.done
    /\ probe.resolutions_str =
          join(<<<<"1", "x", "2", "x", "3">>,
                 <<" ", "2", "0", " ", "x", " ", "1", " ">>,
                 <<"1", "x", "2">>>>, ",")
    /\ probe.result = <<<<20, 1>>, <<1, 2>>>>


\* C21: authenticate returns True only for a response with status 200 and
\* authStatus true, returns False for every other status and for a false
\* or missing authStatus, and answers every connectivity failure, a client
\* error or a timeout, by raising CannotConnect.
C21_AuthenticateContract ==
    (probe.fn = "config_flow" /\ probe.auth # NoAuth) =>
        LET answer == probe.auth.answer
            result == probe.auth.result
        IN  /\ result = "True" =>
                 (answer.error = "none" /\ answer.status = 200
                  /\ answer.authStatus = "true")
            /\ (answer.error = "none"
                /\ (answer.status # 200 \/ answer.authStatus # "true"))
                  => result = "False"
            /\ answer.error # "none" => result = "CannotConnect"

\* C23: the setup flow creates an entry only from a submission whose
\* resolutions parse to a non-empty list within 640..3840 by 480..2160,
\* whose background path has no ".." and no leading "/", and for which
\* authenticate returned True; a submission that fails a validation shows
\* the api_key form again with invalid_resolutions or invalid_path, as the
\* failure is, and makes no request to the server.
C23_EntryOnlyWhenValid ==
    /\ [](probe.fn = "config_flow" /\ probe.entry.created =>
            LET parsed == parse_resolutions(probe.entry.resolutions)
                path == probe.entry.background_path
            IN  /\ Len(parsed) > 0
                /\ \A k \in 1..Len(parsed) :
                      /\ parsed[k][1] \in 640..3840
                      /\ parsed[k][2] \in 480..2160
                /\ ~Contains(path, <<".", ".">>)
                /\ ~(Len(path) > 0 /\ path[1] = "/")
                /\ probe.auth.result = "True")
    /\ [][(probe.fn = "config_flow" /\ probe'.submits = probe.submits + 1) =>
            LET parsed == parse_resolutions(probe'.user_input.resolutions)
                path == probe'.user_input.background_path
                bad_resolutions ==
                    \/ Len(parsed) = 0
                    \/ \E k \in 1..Len(parsed) :
                          \/ parsed[k][1] \notin 640..3840
                          \/ parsed[k][2] \notin 480..2160
                bad_path ==
                    Contains(path, <<".", ".">>) \/ (Len(path) > 0 /\ path[1] = "/")
            IN  (bad_resolutions \/ bad_path) =>
                   (/\ probe'.pc = "api_key"
                    /\ probe'.requests = probe.requests
                    /\ ~probe'.entry.created
                    /\ probe'.errors \in {"invalid_resolutions", "invalid_path"}
                    /\ (probe'.errors = "invalid_resolutions" => bad_resolutions)
                    /\ (probe'.errors = "invalid_path" => bad_path))]_vars

\* a first submission was refused by a validation, no request being made,
\* and the second one, with a repeated resolution, created the entry
C23_Witness ==
    /\ probe.fn = "config_flow" /\ probe.entry.created
    /\ probe.submits = 2 /\ probe.requests = 1
    /\ probe.entry.resolutions = join(<<Hd, Hd>>, ",")


\* C24: the options flow calls authenticate once when the host or the API
\* key submitted differs from the one in force and not at all when neither
\* does; the options are saved only if that authentication, when it was
\* due, returned True, and otherwise the init form is shown again with
\* invalid_auth, cannot_connect or unknown and nothing is saved.  The host
\* is compared without its trailing "/", as it is saved, and the calls are
\* counted for the submissions whose resolutions are valid.
C24_OptionsAuthenticated ==
    [][probe.fn = "options_flow" =>
         LET submitted == probe'.user_input
             differs ==
                 \/ rstrip(submitted.host, "/") # current_host(probe.entry)
                 \/ submitted.api_key # current_api_key(probe.entry)
         IN  /\ (probe'.submits = probe.submits + 1
                 /\ ResolutionsError(submitted.resolutions) = "none") =>
                    probe'.requests = IF differs THEN probe.requests + 1
                                                 ELSE probe.requests
             /\ (probe'.saves = probe.saves + 1 /\ differs) =>
                    probe'.auth.result = "True"
             /\ (probe.pc = "authenticate" /\ probe'.auth.result # "True") =>
                    (/\ probe'.entry = probe.entry
                     /\ probe'.pc = "init"
                     /\ probe'.errors \in {"invalid_auth", "cannot_connect",
                                           "unknown"})]_vars


\* C25: for every list of resolutions the configuration accepts, a list
\* that names a resolution twice included, exactly one of the entities
\* created is primary, so that one entity alone calls manager.refresh and
\* owns the timer.
C25_OnePrimary ==
    (probe.fn = "entities" /\ probe.pc = "running") =>
        Cardinality({e \in 1..Len(probe.entities) :
                        probe.entities[e].is_primary}) = 1

\* C26: once a refresh has succeeded, the next async_image of an entity
\* that is not primary returns the images that refresh loaded, rendered
\* at the resolution of the entity, never bytes of an earlier load.
C26_FollowersServeNewImages ==
    [][(/\ probe.fn = "entities"
        /\ probe'.served # probe.served
        /\ ~probe.entities[probe'.served.entity].is_primary
        /\ outcome.value = "True"
        /\ current_img1 # NoImage) =>
          LET entity == probe.entities[probe'.served.entity]
          IN  probe'.served.bytes =
                  generate_image(entity.target_width, entity.target_height)]_vars


\* C27: for all positive source and target sizes, the quotients being
\* exact, _resize_and_center_crop scales the source to at least the target
\* width and the target height and crops a box of exactly target_w by
\* target_h inside the scaled image, with left = (scaled_w - target_w) // 2
\* and top = floor(0.3 * (scaled_h - target_h)), neither negative.
C27_CropCoversTarget ==
    (probe.fn = "_resize_and_center_crop" /\ probe.done) =>
        LET r == probe.result
            scaled_w == r.scaled[1]
            scaled_h == r.scaled[2]
        IN  /\ scaled_w >= probe.target_w
            /\ scaled_h >= probe.target_h
            /\ r.size = <<probe.target_w, probe.target_h>>
            /\ r.left = (scaled_w - probe.target_w) \div 2
            /\ 10 * r.top <= 3 * (scaled_h - probe.target_h)
            /\ 3 * (scaled_h - probe.target_h) < 10 * (r.top + 1)
            /\ r.left >= 0 /\ r.top >= 0
            /\ r.right <= scaled_w /\ r.bottom <= scaled_h

\* a 1 x 6 source cropped to 1 x 1: the scaled image is 1 x 6 and the box
\* starts at row 1, 30% of the 5 rows in excess
C27_Witness ==
    /\ probe.fn = "_resize_and_center_crop" /\ probe.done
    /\ probe.img = <<1, 6>> /\ probe.target_w = 1 /\ probe.target_h = 1
    /\ probe.result.scaled = <<1, 6>>
    /\ probe.result.top = 1 /\ probe.result.left = 0

\* C28: for every target size the composer makes a canvas of exactly
\* target_w by target_h, the left image on the columns [0, target_w // 2)
\* and the right image on [target_w // 2, 2 * (target_w // 2)), each of
\* them exactly target_w // 2 wide; the halves do not overlap and leave at
\* most one column uncovered, which happens only for an odd target_w.
C28_HalvesSideBySide ==
    (probe.fn = "_compose_side_by_side" /\ probe.done) =>
        LET r == probe.result
            half == probe.target_w \div 2
            Columns(paste) == paste.x .. (paste.x + paste.size[1] - 1)
            uncovered == (0 .. (probe.target_w - 1))
                            \ (Columns(r.left) \cup Columns(r.right))
        IN  /\ r.canvas = <<probe.target_w, probe.target_h>>
            /\ Columns(r.left) = 0 .. (half - 1)
            /\ Columns(r.right) = half .. (2 * half - 1)
            /\ r.left.size = <<half, probe.target_h>>
            /\ r.right.size = <<half, probe.target_h>>
            /\ Columns(r.left) \cap Columns(r.right) = {}
            /\ Cardinality(uncovered) <= 1
            /\ (Cardinality(uncovered) = 1 <=> probe.target_w % 2 = 1)

\* a canvas 5 columns wide: two halves of 2 columns, the last column bare
C28_Witness ==
    /\ probe.fn = "_compose_side_by_side" /\ probe.done
    /\ probe.target_w = 5
    /\ probe.result.left.size[1] = 2
    /\ probe.result.right.x = 2 /\ probe.result.right.size[1] = 2


\* C30: within a refresh the images loaded before are released and both
\* slots are empty before the refill, the pop and the downloads start, and
\* the session never holds decoded images of two different refreshes: the
\* slots are filled only by a refresh that returns True, both in the same
\* step, and are emptied together.
C30_ReleasedBeforeLoading ==
    /\ [](\A t \in Tasks :
            InBody(t) => current_img1 = NoImage /\ current_img2 = NoImage)
    /\ [](/\ current_img1 \in {NoImage, committed.img1}
          /\ current_img2 \in {NoImage, committed.img2}
          /\ (current_img2 # NoImage => current_img1 # NoImage))
    /\ [][(current_img1' # current_img1 \/ current_img2' # current_img2) =>
            \/ (current_img1' = NoImage /\ current_img2' = NoImage)
            \/ (/\ outcome'.value = "True"
                /\ \E t \in Tasks : InBody(t) /\ pc'[t] = "done"
                /\ current_img1' = committed'.img1
                /\ current_img2' = committed'.img2)]_vars

\* a refresh is under way, the two portraits the refresh before it had
\* loaded are released
C30_Witness ==
    /\ \E t \in Tasks : InBody(t)
    /\ committed.img1 # NoImage /\ committed.img2 # NoImage
    /\ current_img1 = NoImage /\ current_img2 = NoImage


\* C29: provided every remote call returns in the end, every refresh()
\* call returns True or False in the end and has released the lock when it
\* does, whichever way it ends, so that every caller waiting for the lock
\* gets to run: no sequence of refreshes is stuck.
C29_RefreshReturns ==
    /\ \A t \in Tasks : (pc[t] = "waiting") ~> (pc[t] = "done")
    /\ [](\A t \in Tasks : pc[t] = "done" =>
            (refresh_lock # t /\ outcome.value \in {"True", "False"}))
    /\ [](refresh_lock # 0 => InBody(refresh_lock))

\* every caller has returned, the last of them with False after its
\* download failed, and the lock is free
C29_Witness ==
    /\ \A t \in Tasks : pc[t] = "done"
    /\ refresh_lock = 0
    /\ outcome = [value |-> "False", path |-> "no_bytes"]


\* the positions of a caller inside _refill_pool: waiting for the memories
\* source, for the recent search, for the detail fetches
RefillPcs == {"mem", "recent", "enrich"}

\* C31: a refresh calls refill exactly when the pool holds fewer than
\* REFILL_THRESHOLD records when the refresh starts (the caller then waits
\* for the memories source or the recent search), and at most once: a
\* caller never goes back to an earlier call of the refill, and never
\* enters the refill after the pops.  A refresh starting with
\* REFILL_THRESHOLD records or more calls neither the memories source, nor
\* the recent search, nor the detail endpoint.
C31_RefillOnlyWhenLow ==
    [][\A t \in Tasks :
         /\ (pc[t] = "waiting" /\ pc'[t] # "waiting") =>
               (Len(asset_pool) < REFILL_THRESHOLD <=> pc'[t] \in {"mem", "recent"})
         /\ (pc[t] = "waiting" /\ Len(asset_pool) >= REFILL_THRESHOLD) =>
               (pc'[t] \notin RefillPcs)
         /\ pc[t] \in {"idle", "dl1", "dl2", "dl", "done"} => (pc'[t] \notin RefillPcs)
         /\ pc[t] = "recent" => (pc'[t] # "mem")
         /\ pc[t] = "enrich" => (pc'[t] \notin {"mem", "recent"})]_vars

\* the last caller started with a pool that earlier refreshes had left
\* well filled: it has popped without a refill of its own (a refill of its
\* own would have left at most two records less than it appended)
C31_Witness ==
    /\ \A u \in Tasks : u < NumTasks => pc[u] = "done"
    /\ pc[NumTasks] \in {"dl", "dl1"}
    /\ Len(asset_pool) >= REFILL_THRESHOLD
    /\ refilled - Len(asset_pool) > 2


\* C32: a second record is popped only when dual-portrait mode is enabled
\* and the first popped record is a portrait, and a refresh ends in dual
\* mode only then; when a refresh returns True with is_dual True, the two
\* stored records are portraits, the bytes of both were downloaded and
\* decoded, and asset2 is the second popped record.
C32_DualOnlyForPortraits ==
    [][\A t \in Tasks :
         /\ (frame[t].second = NoAsset /\ frame'[t].second # NoAsset) =>
               (dual_portrait /\ is_portrait(frame'[t].chosen))
         /\ (pc[t] # "done" /\ pc'[t] = "done"
             /\ outcome'.value = "True" /\ is_dual') =>
               (/\ dual_portrait
                /\ pc[t] = "dl2"
                /\ is_portrait(frame[t].chosen) /\ is_portrait(frame[t].second)
                /\ current_asset1' = frame[t].chosen
                /\ current_asset2' = frame[t].second
                /\ Truthy(frame[t].img1_bytes) /\ frame[t].img1_bytes.ok
                /\ faults' = faults
                /\ current_img1' = Decode([id |-> frame[t].chosen.id, ok |-> TRUE])
                /\ current_img2' = Decode([id |-> frame[t].second.id, ok |-> TRUE]))]_vars

\* a refresh has returned True in dual mode with two records stored
C32_Witness ==
    /\ outcome = [value |-> "True", path |-> "dual"]
    /\ refresh_lock = 0 /\ is_dual
    /\ current_asset1 # NoAsset /\ current_asset2 # NoAsset
    /\ current_img2.src = current_asset2.id


\* C33: during a refill at most API_CONCURRENCY_LIMIT detail fetches are in
\* flight at any instant, however many candidates there are; the refill
\* appends to the pool only when the detail fetch of every candidate has
\* been issued and has returned, and it does get there.
C33_BoundedDetailFetches ==
    /\ [](probe.fn = "gather" => Cardinality(InFlight) <= API_CONCURRENCY_LIMIT)
    /\ [](probe.fn = "gather" /\ probe.done =>
            \A k \in DOMAIN probe.state : Completed(k))
    /\ [][asset_pool' # asset_pool =>
            (\A k \in DOMAIN probe.state : Completed(k))]_vars
    /\ <>(probe.fn = "gather" /\ probe.done)

\* the gate is closed: API_CONCURRENCY_LIMIT fetches are in flight and a
\* further candidate waits for its turn
C33_Witness ==
    /\ probe.fn = "gather"
    /\ Cardinality(InFlight) = API_CONCURRENCY_LIMIT
    /\ \E k \in DOMAIN probe.state : probe.state[k] = "created"


\* what the pops of one refresh can leave of a pool: nothing popped from an
\* empty pool, the first record popped, or a portrait popped too
LeftByPops(pool) ==
    IF Len(pool) = 0 THEN {pool}
    ELSE LET first == _pop_from_pool(pool, 1, FALSE)
         IN  {first.remaining, _pop_from_pool(first.remaining, 1, TRUE).remaining}

\* the refill r only appended: the pool after it starts with the pool
\* before it, and what follows are enriched records of candidates whose
\* detail fetch succeeded, each as often as it was fetched at most, and
\* all of them unless the pool is cut at MAX_POOL_SIZE; no record of a
\* candidate whose detail fetch failed follows
OnlyAppended(r) ==
    LET n == Len(r.before)
        added == BagOfAll(LAMBDA j : r.after[j], SetToBag((n + 1)..Len(r.after)))
        fetched == BagOfAll(LAMBDA k : Enriched(r.assets[k]), SetToBag(r.succeeded))
    IN  /\ Len(r.after) = Min(MAX_POOL_SIZE, n + Cardinality(r.succeeded))
        /\ \A j \in 1..n : r.after[j] = r.before[j]
        /\ added \sqsubseteq fetched
        /\ n + Cardinality(r.succeeded) <= MAX_POOL_SIZE => added = fetched
        /\ \A k \in (1..Len(r.assets)) \ r.succeeded :
              \A j \in (n + 1)..Len(r.after) : r.after[j].id # r.assets[k].id

\* C34: a refill only appends.  The pool after it is the pool before it,
\* records and order, followed by exactly the candidates whose detail fetch
\* succeeded, cut to the first MAX_POOL_SIZE records; a candidate whose
\* detail fetch failed does not enter the pool.  While the refill waits for
\* its sources the pool does not change, and when the combined candidate
\* list is empty no detail fetch is made and the refill leaves the pool as
\* it was (the step goes on to the pops).
C34_RefillOnlyAppends ==
    /\ [][last_refill' # NoRefill =>
            (/\ OnlyAppended(last_refill')
             /\ \E t \in Tasks : /\ pc[t] = "enrich"
                                 /\ last_refill'.before = asset_pool
                                 /\ last_refill'.assets = frame[t].assets
             /\ asset_pool' \in LeftByPops(last_refill'.after))]_vars
    /\ [][\A t \in Tasks :
            /\ pc'[t] \in RefillPcs => (asset_pool' = asset_pool)
            /\ (pc'[t] = "enrich" /\ pc[t] # "enrich") =>
                  (Len(frame'[t].assets) > 0)
            /\ (pc[t] \in {"mem", "recent"} /\ pc'[t] \notin RefillPcs) =>
                  (/\ last_refill' = NoRefill
                   /\ refilled' = refilled /\ appended' = appended
                   /\ asset_pool' \in LeftByPops(asset_pool))]_vars

\* a refill that found records in the pool has lost a candidate whose
\* detail fetch failed and appended so many others that the pool was cut
C34_Witness ==
    /\ Len(last_refill.before) > 0
    /\ last_refill.succeeded # 1..Len(last_refill.assets)
    /\ Len(last_refill.before) + Cardinality(last_refill.succeeded) > MAX_POOL_SIZE
    /\ Len(last_refill.after) = MAX_POOL_SIZE


\* C35: once a step of the setup flow or of the options flow has returned,
\* the hub it constructed to validate the credentials has had close()
\* called and its session is not open, whether authenticate returned True
\* or False, raised CannotConnect or raised anything else.
C35_ValidationHubClosed ==
    (probe.fn \in {"config_flow", "options_flow"}
     /\ probe.pc # "authenticate" /\ probe.hub.constructed) =>
        /\ probe.hub.closes >= 1
        /\ probe.hub.session = "closed"

\* a step has returned after its request ran into the total timeout, an
\* exception the hub does not translate
C35_Witness ==
    /\ probe.fn \in {"config_flow", "options_flow"}
    /\ probe.pc # "authenticate" /\ probe.hub.constructed
    /\ probe.auth.result = "TimeoutError" /\ probe.errors = "unknown"
    /\ probe.hub.session = "closed"


\* the positions of a caller that has popped and waits for a download
DownloadPcs == {"dl1", "dl2", "dl"}

\* C36: a refresh that finds records in the pool after the refill step
\* removes the first record, and with it the next portrait when dual mode
\* is enabled, the first record is a portrait and the pool holds another
\* one: exactly one record, or exactly two, and no other.  The pool is left
\* alone for the rest of the refresh, whatever the downloads and the
\* decoding give: the records are not put back.
C36_PopsAreFinal ==
    [][\A t \in Tasks :
         /\ (pc[t] \in {"waiting"} \cup RefillPcs /\ pc'[t] \notin {"waiting"} \cup RefillPcs) =>
               LET pool == IF last_refill' # NoRefill THEN last_refill'.after
                                                      ELSE asset_pool
                   others == {j \in 2..Len(pool) : is_portrait(pool[j])}
                   two == dual_portrait /\ is_portrait(pool[1]) /\ others # {}
                   second == CHOOSE j \in others : \A k \in others : j <= k
               IN  Len(pool) > 0 =>
                     /\ pc'[t] \in DownloadPcs
                     /\ frame'[t].chosen = pool[1]
                     /\ Len(asset_pool') = Len(pool) - (IF two THEN 2 ELSE 1)
                     /\ two => /\ frame'[t].second = pool[second]
                               /\ asset_pool' = SubSeq(pool, 2, second - 1)
                                                \o SubSeq(pool, second + 1, Len(pool))
                     /\ ~two => /\ frame'[t].second = NoAsset
                                /\ asset_pool' = SubSeq(pool, 2, Len(pool))
         /\ pc[t] \in DownloadPcs => (asset_pool' = asset_pool)]_vars

\* two records were popped, a download or the decoding failed and the
\* refresh goes on with the first record alone: the pool, not empty, has
\* neither of the two back
C36_Witness ==
    \E t \in Tasks :
        /\ pc[t] = "dl" /\ frame[t].second # NoAsset
        /\ Len(asset_pool) > 0
        /\ \A k \in 1..Len(asset_pool) :
              asset_pool[k].id \notin {frame[t].chosen.id, frame[t].second.id}


\* C37: whatever is submitted to the setup flow and to the options flow,
\* the background_path stored in the options of the entry never contains
\* ".." and never starts with "/".
C37_StoredPathStaysInside ==
    /\ probe.fn = "config_flow" /\ probe.entry.created =>
          /\ ~Contains(probe.entry.background_path, <<".", ".">>)
          /\ ~(Len(probe.entry.background_path) > 0
               /\ probe.entry.background_path[1] = "/")
    /\ probe.fn = "options_flow" =>
          /\ ~Contains(probe.entry.options_background_path, <<".", ".">>)
          /\ ~(Len(probe.entry.options_background_path) > 0
               /\ probe.entry.options_background_path[1] = "/")

\* C38: once the options flow has saved a host it validated by
\* authenticating against it and the entry has been reloaded, the hub of
\* the entry is constructed with that host, as it is constructed with the
\* API key saved in the options.
C38_ReloadUsesSavedHost ==
    (probe.fn = "options_flow" /\ probe.saves > 0 /\ probe.reloads = probe.saves) =>
        /\ probe.loaded.api_key = probe.entry.options_api_key
        /\ TruthyText(probe.entry.options_host) =>
              probe.loaded.host = probe.entry.options_host


\* C39: when manager.refresh() has returned False to the primary entity
\* that called it, the entity keeps its image bytes and its last-updated
\* timestamp, writes no state and renders nothing; and async_image of an
\* entity that holds bytes returns them as they are, so the last image
\* rendered with success goes on being served.
C39_FailedRefreshKeepsImage ==
    [][/\ \A t \in Tasks :
            (probe.fn = "entities" /\ Pending(t) /\ probe'.handled[t]
             /\ outcome.value = "False") =>
               LET e == probe.caller[t]
               IN  /\ probe.entities[e].is_primary
                   /\ probe'.entities[e].current_image_bytes =
                         probe.entities[e].current_image_bytes
                   /\ probe'.entities[e].image_last_updated =
                         probe.entities[e].image_last_updated
                   /\ probe'.entities[e].state_writes =
                         probe.entities[e].state_writes
                   /\ rendered' = NoCall
       /\ (probe.fn = "entities" /\ probe'.served # probe.served) =>
             LET e == probe'.served.entity
             IN  probe.entities[e].current_image_bytes # NoRender =>
                    /\ probe'.served.bytes = probe.entities[e].current_image_bytes
                    /\ probe'.entities[e] = probe.entities[e]]_vars

\* the last refresh of the primary entity has failed and has left the
\* manager without an image; the entity still holds the image it rendered
\* before, and async_image has served it
C39_Witness ==
    /\ probe.fn = "entities"
    /\ outcome.value = "False" /\ refresh_lock = 0 /\ NoPending
    /\ current_img1 = NoImage
    /\ \E t \in Tasks : probe.handled[t]
    /\ probe.served.entity # 0
    /\ probe.entities[probe.served.entity].is_primary
    /\ probe.entities[probe.served.entity].state_writes = 1
    /\ probe.served.bytes # NoRender
    /\ probe.served.bytes = probe.entities[probe.served.entity].current_image_bytes


====
